---- MODULE Spec2Model ----
(***************************************************************************)
(* Custodial wallet vault, signed-transfer pipeline and tool dispatcher of *)
(* the Solana MCP server.                                                  *)
(*                                                                         *)
(*   wallet-service.ts  SimpleWalletManager  (vault + SQLite tables)       *)
(*   tool-service.ts    ToolService.executeTool / sendSolSecure            *)
(*   routes/api.ts      POST /mcp/tools/:toolName (Promise.race timeout)   *)
(*                                                                         *)
(* Every `await` of the source is a suspension point: one action of the    *)
(* model executes the awaited database / gateway operation together with   *)
(* the synchronous continuation that follows it, up to the next await.     *)
(* The initial state is the server after bootstrap (index.ts ->            *)
(* initMcpServer -> walletService.initialize, toolService.initialize).     *)
(***************************************************************************)
EXTENDS Integers, Sequences, FiniteSets, TLC

----------------------------------------------------------------------------
(* Bounds of the model                                                     *)

NumProcs == 3          \* call slots (each call runs once)
NumCallers == 2        \* calls made where transfers or signing take part
MaxKeys == 3           \* keypairs Keypair.generate() may hand out
MaxBlocks == 2         \* blockhashes the ledger produces
MaxEnvelopes == 3      \* direct encryptPrivateKey calls
MaxRestarts == 2       \* times the server process is started again
MaxTime == 30000       \* the clock stops advancing here (ms)
TickMs == 15000        \* granularity of the clock (ms)

Procs == 1..NumProcs

\* the slots used by the specifications with transfers or signing
Callers == 1..NumCallers

----------------------------------------------------------------------------
(* Program constants                                                       *)

TIMEOUT_MS == 30000
KEY_BYTES == 32
LAMPORTS_PER_SOL == 1000000000

----------------------------------------------------------------------------
(* Value domains                                                           *)

\* (platform, platformId) pairs the callers use
Identities == { <<"twitter", "alice">>, <<"twitter", "bob">> }
NoIdentity == <<"", "">>

\* public keys / addresses: <<"pk", k>> is the key of the k-th generated
\* keypair, <<"bad", 0>> a string that is not a valid base58 public key
PubKey(k) == <<"pk", k>>
SecretKey(k) == <<"sk", k>>
NoKey == <<"none", 0>>
BadAddress == <<"bad", 0>>
AllPubKeys == { PubKey(k) : k \in 1..MaxKeys }

\* Keypair.fromSecretKey(bs58.decode(privateKey))
KeypairFromSecretKey(sk) == [publicKey |-> PubKey(sk[2]), secretKey |-> sk]
NoKeypair == [publicKey |-> NoKey, secretKey |-> NoKey]

\* new PublicKey(address) throws on a malformed address
IsValidPublicKey(a) == a[1] = "pk"

\* amounts of SOL a caller may ask for
Amounts == {-1, 0, 1}

NoEnvelope == [iv |-> 0, key |-> [text |-> "", len |-> 0], pt |-> NoKey]
NullWallet == [id |-> 0, publicKey |-> NoKey, isCustodial |-> FALSE,
               encryptedPrivateKey |-> NoEnvelope]
NoTx == [from |-> NoKey, to |-> NoKey, amount |-> 0, blockhash |-> 0,
         feePayer |-> NoKey, signedWith |-> NoKey, mint |-> NoKey]

\* the mint of an SPL token
TokenMint == PubKey(0)

----------------------------------------------------------------------------
VARIABLES
    wallets,          \* table wallets: sequence of rows, id = position
    social_accounts,  \* table social_accounts: sequence of rows
    keyCount,         \* keypairs generated so far (Keypair.generate)
    encryptionKey,    \* SimpleWalletManager.encryptionKey
    serviceKeypair,   \* SimpleWalletManager.serviceKeypair
    vault,            \* frames of the SimpleWalletManager calls in progress
    tool,             \* frames of executeTool / sendSolSecure in progress
    route,            \* POST /mcp/tools/:toolName: timer and response
    db_wallets,       \* table wallets of the Database class
    db_social_accounts, \* table social_accounts of the Database class
    transactions,     \* table transactions of the Database class
    repo,             \* frames of the Database calls in progress
    now,              \* wall clock (ms)
    ledger,           \* transfers the ledger has applied
    token_accounts,   \* token accounts on the ledger: <<owner, mint>>
    cipher,           \* direct uses of encryptPrivateKey / decryptPrivateKey
    WALLET_ENCRYPTION_KEY, \* process.env.WALLET_ENCRYPTION_KEY
    processes,        \* server processes started so far
    blockhash         \* latest blockhash of the ledger

dbVars == <<wallets, social_accounts>>
vaultVars == <<keyCount, encryptionKey, serviceKeypair, vault>>
ledgerVars == <<ledger, blockhash, token_accounts>>
repoVars == <<db_wallets, db_social_accounts, transactions, repo>>
cipherVars == <<cipher>>
processVars == <<WALLET_ENCRYPTION_KEY, processes>>
vars == <<wallets, social_accounts, keyCount, encryptionKey, serviceKeypair,
          vault, tool, route, now, ledger, blockhash, db_social_accounts,
          transactions, repo, token_accounts, cipher, db_wallets,
          WALLET_ENCRYPTION_KEY, processes>>

----------------------------------------------------------------------------
(* Cipher: aes-256-cbc with a random iv, modelled symbolically.  An        *)
(* envelope records the iv, the key bytes it was produced with and the     *)
(* plaintext; decrypting with other key bytes fails.                       *)

\* a key string: its text and its length in characters
KeyString(text, len) == [text |-> text, len |-> len]

\* crypto.randomBytes(32).toString('hex') in the n-th process: 64
\* characters no other process draws
RandomHex(n) ==
    KeyString(<<"random1", "random2", "random3", "random4">>[n],
              2 * KEY_BYTES)

\* the constructor, in the n-th process:
\* SOLANA_CONFIG.encryptionKey || crypto.randomBytes(32).toString('hex')
ConstructEncryptionKey(configured, n) ==
    IF configured.len > 0 THEN configured ELSE RandomHex(n)

\* Buffer.from(this.encryptionKey.slice(0, 32))
KeySlice(k) == [k EXCEPT !.len = IF @ > KEY_BYTES THEN KEY_BYTES ELSE @]

\* createCipheriv('aes-256-cbc', key, iv) throws unless key has 32 bytes
KeyLengthOk(key) == KeySlice(key).len = KEY_BYTES

\* variant: the cipher is created with a constant iv
encryptWithConstantIv(privateKey, key, iv) ==
    [iv |-> 0, key |-> KeySlice(key), pt |-> privateKey]

\* SimpleWalletManager.encryptPrivateKey; iv = crypto.randomBytes(16)
encryptPrivateKey(privateKey, key, iv) ==
    [iv |-> iv, key |-> KeySlice(key), pt |-> privateKey]

\* SimpleWalletManager.decryptPrivateKey: the plaintext, or NoKey when
\* decipher.final() throws
decryptPrivateKey(envelope, key) ==
    IF KeyLengthOk(key) /\ envelope.key = KeySlice(key)
    THEN envelope.pt ELSE NoKey

\* what the direct uses of the two methods have produced so far: the
\* plaintexts encrypted, their envelopes, the random ivs drawn, and the
\* outcome of the last decryptPrivateKey(envelopes[index])
IdleCipher ==
    [inputs |-> <<>>, envelopes |-> <<>>, ivs |-> 0, index |-> 0,
     status |-> "none", plaintext |-> NoKey]

----------------------------------------------------------------------------
(* SQLite tables                                                           *)

WalletRow(id, pk, enc) ==
    [id |-> id, public_key |-> pk, is_custodial |-> TRUE,
     encrypted_private_key |-> enc]

\* variant: a binding that ignores the wallet it is given
SocialRowFirstWallet(identity, walletId) ==
    [platform |-> identity[1], platform_id |-> identity[2], wallet_id |-> 1]

SocialRow(identity, walletId) ==
    [platform |-> identity[1], platform_id |-> identity[2],
     wallet_id |-> walletId]

RowIdentity(r) == <<r.platform, r.platform_id>>

\* SELECT * FROM social_accounts WHERE platform = ? AND platform_id = ?
SelectSocial(identity) ==
    { i \in 1..Len(social_accounts) :
        RowIdentity(social_accounts[i]) = identity }

\* SELECT * FROM wallets WHERE public_key = ?
SelectWalletByPk(pk) ==
    { i \in 1..Len(wallets) : wallets[i].public_key = pk }

\* variant: the table without its UNIQUE(platform, platform_id) constraint
SocialUniqueDropped(identity) == TRUE

\* UNIQUE(platform, platform_id) of SOCIAL_ACCOUNT_SCHEMA
SocialUniqueOk(identity) == SelectSocial(identity) = {}

\* public_key TEXT NOT NULL UNIQUE of WALLET_SCHEMA
WalletUniqueOk(pk) == SelectWalletByPk(pk) = {}

\* variant: getWalletById without its WHERE id = ?, first row of the table
WalletInfoFirstRow(row) ==
    [id |-> wallets[1].id, publicKey |-> wallets[1].public_key,
     isCustodial |-> wallets[1].is_custodial,
     encryptedPrivateKey |-> wallets[1].encrypted_private_key]

\* row -> WalletInfo, as getWalletById builds it
WalletInfo(row) ==
    [id |-> row.id, publicKey |-> row.public_key,
     isCustodial |-> row.is_custodial,
     encryptedPrivateKey |-> row.encrypted_private_key]

\* variant: DELETE FROM social_accounts without its WHERE clause
RemoveEveryRow(rows, identity) == <<>>

RECURSIVE RemoveIdentity(_, _)
\* DELETE FROM social_accounts WHERE platform = ? AND platform_id = ?
RemoveIdentity(rows, identity) ==
    IF rows = <<>> THEN <<>>
    ELSE IF RowIdentity(Head(rows)) = identity
         THEN RemoveIdentity(Tail(rows), identity)
         ELSE <<Head(rows)>> \o RemoveIdentity(Tail(rows), identity)

----------------------------------------------------------------------------
(* Frames of the vault calls                                               *)

IdleVault ==
    [method |-> "none", pc |-> "idle", caller |-> "none",
     identity |-> NoIdentity, walletPublicKey |-> NoKey, tx |-> NoTx,
     publicKey |-> NoKey, encryptedPrivateKey |-> NoEnvelope, walletId |-> 0,
     privateKey |-> NoKey, keypair |-> NoKeypair,
     status |-> "none", error |-> "", wallet |-> NullWallet,
     changed |-> FALSE, signed |-> NoTx]

\* a call frame at its first await
VaultCall(method, pc, caller, identity, pk, tx) ==
    [IdleVault EXCEPT !.method = method, !.pc = pc, !.caller = caller,
                      !.identity = identity, !.walletPublicKey = pk,
                      !.tx = tx]

\* the frame after `return`: the locals are gone, the arguments and the
\* result stay for the caller
VaultDone(f) ==
    [IdleVault EXCEPT !.method = f.method, !.pc = "done",
                      !.caller = f.caller, !.identity = f.identity,
                      !.walletPublicKey = f.walletPublicKey, !.tx = f.tx]

VaultReturnWallet(f, w) ==
    [VaultDone(f) EXCEPT !.status = "returned", !.wallet = w]
VaultReturnBool(f, b) ==
    [VaultDone(f) EXCEPT !.status = "returned", !.changed = b]
VaultReturnTx(f, t) ==
    [VaultDone(f) EXCEPT !.status = "returned", !.signed = t]
VaultThrow(f, e) ==
    [VaultDone(f) EXCEPT !.status = "thrown", !.error = e]

----------------------------------------------------------------------------
(* SimpleWalletManager.createWallet                                        *)

\* db.get(SELECT social_accounts) ; throw if linked ; Keypair.generate ;
\* encryptPrivateKey ; issue INSERT INTO wallets
CreateWalletCheck(p) ==
    /\ vault[p].pc = "cw_check"
    /\ IF SelectSocial(vault[p].identity) # {}
       THEN /\ vault' = [vault EXCEPT ![p] = VaultThrow(@, "already_linked")]
            /\ UNCHANGED keyCount
       ELSE /\ keyCount < MaxKeys
            /\ keyCount' = keyCount + 1
            /\ IF KeyLengthOk(encryptionKey)
               THEN vault' = [vault EXCEPT ![p] =
                   [@ EXCEPT !.pc = "cw_insert_wallet",
                             !.publicKey = PubKey(keyCount + 1),
                             !.encryptedPrivateKey =
                                 encryptPrivateKey(SecretKey(keyCount + 1),
                                                   encryptionKey,
                                                   keyCount + 1)]]
               ELSE vault' = [vault EXCEPT ![p] =
                   VaultThrow(@, "invalid_key_length")]
    /\ UNCHANGED <<processVars, cipherVars, repoVars, dbVars, encryptionKey, serviceKeypair, tool, route, now,
                   ledgerVars>>

\* INSERT INTO wallets ; walletId = lastID ; issue INSERT INTO social_accounts
CreateWalletInsertWallet(p) ==
    /\ vault[p].pc = "cw_insert_wallet"
    /\ IF WalletUniqueOk(vault[p].publicKey)
       THEN /\ wallets' = Append(wallets,
                   WalletRow(Len(wallets) + 1, vault[p].publicKey,
                             vault[p].encryptedPrivateKey))
            /\ vault' = [vault EXCEPT ![p] =
                   [@ EXCEPT !.pc = "cw_insert_social",
                             !.walletId = Len(wallets) + 1]]
       ELSE /\ vault' = [vault EXCEPT ![p] =
                   VaultThrow(@, "SQLITE_CONSTRAINT")]
            /\ UNCHANGED wallets
    /\ UNCHANGED <<processVars, cipherVars, repoVars, social_accounts, keyCount, encryptionKey, serviceKeypair,
                   tool, route, now, ledgerVars>>

\* variant: the INSERT goes through whatever the table holds
InsertSocialAccountUnchecked(identity, walletId) ==
    Append(social_accounts, SocialRow(identity, walletId))

\* the INSERT INTO social_accounts of createWallet / linkSocialAccountToWallet
InsertSocialAccount(identity, walletId) ==
    IF SocialUniqueOk(identity)
    THEN Append(social_accounts, SocialRow(identity, walletId))
    ELSE social_accounts

\* INSERT INTO social_accounts ; then getWalletById(walletId)
CreateWalletInsertSocial(p) ==
    /\ vault[p].pc = "cw_insert_social"
    /\ social_accounts' =
           InsertSocialAccount(vault[p].identity, vault[p].walletId)
    /\ IF SocialUniqueOk(vault[p].identity)
       THEN vault' = [vault EXCEPT ![p] = [@ EXCEPT !.pc = "get_by_id"]]
       ELSE vault' = [vault EXCEPT ![p] = VaultThrow(@, "SQLITE_CONSTRAINT")]
    /\ UNCHANGED <<processVars, cipherVars, repoVars, wallets, keyCount, encryptionKey, serviceKeypair, tool,
                   route, now, ledgerVars>>

\* SimpleWalletManager.getWalletById: SELECT the wallet row, build WalletInfo
GetWalletById(p) ==
    /\ vault[p].pc = "get_by_id"
    /\ IF vault[p].walletId \in 1..Len(wallets)
       THEN vault' = [vault EXCEPT ![p] =
                VaultReturnWallet(@, WalletInfo(wallets[vault[p].walletId]))]
       ELSE vault' = [vault EXCEPT ![p] = VaultThrow(@, "wallet_id_not_found")]
    /\ UNCHANGED <<processVars, cipherVars, repoVars, dbVars, keyCount, encryptionKey, serviceKeypair, tool,
                   route, now, ledgerVars>>

----------------------------------------------------------------------------
(* SimpleWalletManager.getWalletBySocialAccount                            *)

\* db.get(SELECT wallet_id FROM social_accounts) ; null or getWalletById
GetWalletBySocialAccount(p) ==
    /\ vault[p].pc = "gs_select"
    /\ LET found == SelectSocial(vault[p].identity) IN
       IF found = {}
       THEN vault' = [vault EXCEPT ![p] = VaultReturnWallet(@, NullWallet)]
       ELSE \E i \in found :
              /\ \A j \in found : i <= j
              /\ vault' = [vault EXCEPT ![p] =
                     [@ EXCEPT !.pc = "get_by_id",
                               !.walletId = social_accounts[i].wallet_id]]
    /\ UNCHANGED <<processVars, cipherVars, repoVars, dbVars, keyCount, encryptionKey, serviceKeypair, tool,
                   route, now, ledgerVars>>

----------------------------------------------------------------------------
(* SimpleWalletManager.linkSocialAccountToWallet                           *)

\* db.get(SELECT id FROM wallets WHERE public_key = ?) ; throw if absent
LinkSelectWallet(p) ==
    /\ vault[p].pc = "ls_select_wallet"
    /\ LET found == SelectWalletByPk(vault[p].walletPublicKey) IN
       IF found = {}
       THEN vault' = [vault EXCEPT ![p] = VaultThrow(@, "wallet_not_found")]
       ELSE \E i \in found :
              vault' = [vault EXCEPT ![p] =
                  [@ EXCEPT !.pc = "ls_check", !.walletId = wallets[i].id]]
    /\ UNCHANGED <<processVars, cipherVars, repoVars, dbVars, keyCount, encryptionKey, serviceKeypair, tool,
                   route, now, ledgerVars>>

\* db.get(SELECT social_accounts) ; throw if the identity is linked
LinkCheck(p) ==
    /\ vault[p].pc = "ls_check"
    /\ IF SelectSocial(vault[p].identity) # {}
       THEN vault' = [vault EXCEPT ![p] = VaultThrow(@, "already_linked")]
       ELSE vault' = [vault EXCEPT ![p] = [@ EXCEPT !.pc = "ls_insert"]]
    /\ UNCHANGED <<processVars, cipherVars, repoVars, dbVars, keyCount, encryptionKey, serviceKeypair, tool,
                   route, now, ledgerVars>>

\* INSERT INTO social_accounts ; then getWalletById(walletRecord.id)
LinkInsert(p) ==
    /\ vault[p].pc = "ls_insert"
    /\ social_accounts' =
           InsertSocialAccount(vault[p].identity, vault[p].walletId)
    /\ IF SocialUniqueOk(vault[p].identity)
       THEN vault' = [vault EXCEPT ![p] = [@ EXCEPT !.pc = "get_by_id"]]
       ELSE vault' = [vault EXCEPT ![p] = VaultThrow(@, "SQLITE_CONSTRAINT")]
    /\ UNCHANGED <<processVars, cipherVars, repoVars, wallets, keyCount, encryptionKey, serviceKeypair, tool,
                   route, now, ledgerVars>>

----------------------------------------------------------------------------
(* SimpleWalletManager.unlinkSocialAccount                                 *)

\* db.run(DELETE FROM social_accounts ...) ; return result.changes > 0
UnlinkSocialAccount(p) ==
    /\ vault[p].pc = "us_delete"
    /\ social_accounts' = RemoveIdentity(social_accounts, vault[p].identity)
    /\ vault' = [vault EXCEPT ![p] =
           VaultReturnBool(@, Len(social_accounts')
                                  < Len(social_accounts))]
    /\ UNCHANGED <<processVars, cipherVars, repoVars, wallets, keyCount, encryptionKey, serviceKeypair, tool,
                   route, now, ledgerVars>>

----------------------------------------------------------------------------
(* SimpleWalletManager.signWalletTransaction                               *)

\* variant: the SELECT without its WHERE clause, first row of the table
SignSelectFirstRow(pk) == IF Len(wallets) = 0 THEN 0 ELSE 1

\* the row db.get(SELECT encrypted_private_key FROM wallets WHERE
\* public_key = ?) returns: its index in the table, 0 when there is none
SignSelectRow(pk) ==
    IF SelectWalletByPk(pk) = {} THEN 0
    ELSE CHOOSE i \in SelectWalletByPk(pk) :
             \A j \in SelectWalletByPk(pk) : i <= j

\* transaction.sign(keypair): web3.js refuses a signer the transaction does
\* not name ("unknown signer")
SignAccepts(tx, keypair) == keypair.publicKey = tx.feePayer

\* variant: the keypair is cached in this.serviceKeypair
SignCachesKeypair(keypair) == keypair

\* the fields of the vault object after a signing call: nothing is stored
SignKeepsInVault(keypair) == serviceKeypair

\* variant: an envelope that does not decrypt is reported like a wallet
\* without private key
DecryptFailureAsNoKey(padding) == "cannot_sign"

\* how signWalletTransaction fails on an envelope that does not decrypt:
\* decipher.final() (or update, createDecipheriv) throws; or the padding
\* happens to check and bs58.decode / Keypair.fromSecretKey throws on the
\* garbage
DecryptFailure(padding) ==
    IF padding THEN "bad_secret_key" ELSE "bad_decrypt"

\* db.get(SELECT encrypted_private_key) ; throw if absent ; decryptPrivateKey ;
\* Keypair.fromSecretKey -- the frame now holds the decrypted material
SignLoad(p) ==
    /\ vault[p].pc = "sw_select"
    /\ LET i == SignSelectRow(vault[p].walletPublicKey) IN
       IF i = 0 \/ wallets[i].encrypted_private_key = NoEnvelope
       THEN vault' = [vault EXCEPT ![p] = VaultThrow(@, "cannot_sign")]
       ELSE LET sk == decryptPrivateKey(wallets[i].encrypted_private_key,
                                        encryptionKey) IN
            IF sk = NoKey
            THEN \E padding \in BOOLEAN :
                   vault' = [vault EXCEPT ![p] =
                       VaultThrow(@, DecryptFailure(padding))]
            ELSE vault' = [vault EXCEPT ![p] =
                     [@ EXCEPT !.pc = "sw_sign", !.privateKey = sk,
                               !.keypair = KeypairFromSecretKey(sk)]]
    /\ UNCHANGED <<processVars, cipherVars, repoVars, dbVars, keyCount, encryptionKey, serviceKeypair, tool,
                   route, now, ledgerVars>>

\* transaction.sign(keypair) ; return transaction -- the frame and with it
\* privateKey and keypair are dropped.  (Same synchronous section as
\* SignLoad: split in two steps to expose the frame while it holds the key.)
SignAndReturn(p) ==
    /\ vault[p].pc = "sw_sign"
    /\ IF SignAccepts(vault[p].tx, vault[p].keypair)
       THEN vault' = [vault EXCEPT ![p] =
                VaultReturnTx(@, [vault[p].tx EXCEPT
                    !.signedWith = vault[p].keypair.secretKey])]
       ELSE vault' = [vault EXCEPT ![p] = VaultThrow(@, "unknown_signer")]
    /\ serviceKeypair' = SignKeepsInVault(vault[p].keypair)
    /\ UNCHANGED <<processVars, cipherVars, repoVars, dbVars, keyCount, encryptionKey, tool, route, now,
                   ledgerVars>>

----------------------------------------------------------------------------
(* Ledger Gateway (Connection of @solana/web3.js).  The ledger identifies  *)
(* a transaction by its signature, i.e. by its signed content including    *)
(* the recent blockhash, and processes a given transaction once.           *)

\* SOL -> lamports
Lamports(amount) == amount * LAMPORTS_PER_SOL

\* the ledger advances to a new blockhash
NewBlock ==
    /\ blockhash < MaxBlocks
    /\ blockhash' = blockhash + 1
    /\ UNCHANGED <<processVars, cipherVars, repoVars, dbVars, vaultVars, tool, route, now, ledger,
                   token_accounts>>

----------------------------------------------------------------------------
(* Frames of ToolService.executeTool and of the two sendSolSecure          *)

NoParams == [sender |-> NoIdentity, recipient |-> NoIdentity, amount |-> 0,
             amountType |-> "undefined"]

IdleTool ==
    [entry |-> "none", pc |-> "idle", toolName |-> "", params |-> NoParams,
     from |-> NoKey, to |-> NoKey, amount |-> 0, mint |-> NoKey,
     decimals |-> 0,
     senderWallet |-> NullWallet, recipientWallet |-> NullWallet,
     walletCreated |-> FALSE, transaction |-> NoTx, signature |-> NoTx,
     trace |-> <<>>,
     status |-> "none", isError |-> FALSE, error |-> "",
     reportsCreated |-> FALSE]

\* executeTool returns { content: [...], isError: true }
\* (handleToolError or one of the explicit error envelopes)
ErrorEnvelope(f, e) ==
    [f EXCEPT !.pc = "done", !.status = "returned", !.isError = TRUE,
              !.error = e]

\* variant: a success text that never mentions the new wallet
SuccessEnvelopeSilent(f, sig) ==
    [f EXCEPT !.pc = "done", !.status = "returned", !.isError = FALSE,
              !.signature = sig, !.reportsCreated = FALSE]

\* executeTool returns the success envelope of sendSolToUser
SuccessEnvelope(f, sig) ==
    [f EXCEPT !.pc = "done", !.status = "returned", !.isError = FALSE,
              !.signature = sig, !.reportsCreated = f.walletCreated]

\* variant: executeTool without the try/catch around the handler
SendFailsUncaught(f, e) ==
    [f EXCEPT !.pc = "done", !.status = "thrown", !.error = e]

\* variant: a failed sendRawTransaction is tried once more
SendFailsRetrying(f, e) ==
    IF f.pc = "s_send" /\ Len(f.trace) < 4
    THEN [f EXCEPT !.trace = Append(@, "sendRawTransaction")]
    ELSE ErrorEnvelope(f, e)

\* how a failure inside sendSolSecure leaves the frame: thrown to a direct
\* caller, caught and turned into an envelope inside executeTool and inside
\* the registered tool
SendFails(f, e) ==
    IF f.entry \in {"executeTool", "mcpTool"} THEN ErrorEnvelope(f, e)
    ELSE [f EXCEPT !.pc = "done", !.status = "thrown", !.error = e]

\* how sendSolSecure returning `signature` leaves the frame
SendReturns(f, sig) ==
    IF f.entry \in {"executeTool", "mcpTool"} THEN SuccessEnvelope(f, sig)
    ELSE [f EXCEPT !.pc = "done", !.status = "returned", !.signature = sig]

\* ToolService.sendSolSecure: `if (amount <= 0) throw`
AmountRejected(amount) == amount <= 0

\* the synchronous head of ToolService.sendSolSecure, up to
\* `await this.connection.getLatestBlockhash()`
SendSolSecureHead(f, from, to, amount) ==
    LET g == [f EXCEPT !.from = from, !.to = to, !.amount = amount] IN
    IF ~IsValidPublicKey(from) \/ ~IsValidPublicKey(to)
    THEN SendFails(g, "invalid_public_key")
    ELSE IF AmountRejected(amount)
    THEN SendFails(g, "amount_must_be_positive")
    ELSE [g EXCEPT !.pc = "s_blockhash",
                   !.transaction = [NoTx EXCEPT !.from = from, !.to = to,
                                        !.amount = Lamports(amount)]]

\* the synchronous head of the module function sendSolSecure: no amount
\* check; SystemProgram.transfer encodes `lamports` as u64, which for a
\* negative value either throws or wraps, depending on the library build
SendSolSecureFnHead(f, from, to, amount, encodes) ==
    LET g == [f EXCEPT !.from = from, !.to = to, !.amount = amount] IN
    IF ~IsValidPublicKey(from) \/ ~IsValidPublicKey(to)
    THEN SendFails(g, "invalid_public_key")
    ELSE IF amount < 0 /\ ~encodes
    THEN SendFails(g, "encode_out_of_range")
    ELSE [g EXCEPT !.pc = "s_blockhash",
                   !.transaction = [NoTx EXCEPT !.from = from, !.to = to,
                                        !.amount = Lamports(amount)]]

\* await connection.getLatestBlockhash() ; set recentBlockhash and feePayer ;
\* call walletService.signWalletTransaction
GetLatestBlockhash(p) ==
    /\ tool[p].pc = "s_blockhash"
    /\ \E ok \in BOOLEAN :
         LET f == [tool[p] EXCEPT
                      !.trace = Append(@, "getLatestBlockhash")]
             tx == [f.transaction EXCEPT !.blockhash = blockhash,
                                         !.feePayer = f.from]
         IN IF ok
            THEN /\ tool' = [tool EXCEPT ![p] =
                        [f EXCEPT !.pc = "s_sign", !.transaction = tx,
                             !.trace = Append(@, "signWalletTransaction")]]
                 /\ vault' = [vault EXCEPT ![p] =
                        VaultCall("signWalletTransaction", "sw_select",
                                  "tool", NoIdentity, f.from, tx)]
            ELSE /\ tool' = [tool EXCEPT ![p] = SendFails(f, "rpc_error")]
                 /\ UNCHANGED vault
    /\ UNCHANGED <<processVars, cipherVars, repoVars, dbVars, keyCount, encryptionKey, serviceKeypair, route,
                   now, ledgerVars>>

\* signWalletTransaction has settled ; call connection.sendRawTransaction
AfterSign(p) ==
    /\ tool[p].pc = "s_sign"
    /\ vault[p].pc = "done"
    /\ IF vault[p].status = "thrown"
       THEN tool' = [tool EXCEPT ![p] = SendFails(@, vault[p].error)]
       ELSE tool' = [tool EXCEPT ![p] =
                [@ EXCEPT !.pc = "s_send", !.transaction = vault[p].signed,
                          !.trace = Append(@, "sendRawTransaction")]]
    /\ vault' = [vault EXCEPT ![p] = IdleVault]
    /\ UNCHANGED <<processVars, cipherVars, repoVars, dbVars, keyCount, encryptionKey, serviceKeypair, route,
                   now, ledgerVars>>

\* await connection.sendRawTransaction(...): the ledger processes the
\* transaction unless it has processed it before, or the call fails
SendRawTransaction(p) ==
    /\ tool[p].pc = "s_send"
    /\ \E ok \in BOOLEAN :
         IF ok /\ tool[p].transaction \notin ledger
         THEN /\ ledger' = ledger \cup {tool[p].transaction}
              /\ tool' = [tool EXCEPT ![p] =
                     [@ EXCEPT !.pc = "s_confirm",
                               !.signature = tool[p].transaction,
                               !.trace = Append(@, "confirmTransaction")]]
         ELSE /\ tool' = [tool EXCEPT ![p] = SendFails(@, "rpc_error")]
              /\ UNCHANGED ledger
    /\ UNCHANGED <<processVars, cipherVars, repoVars, dbVars, vaultVars, route, now, blockhash,
                   token_accounts>>

\* await connection.confirmTransaction(signature) ; return signature
ConfirmTransaction(p) ==
    /\ tool[p].pc = "s_confirm"
    /\ \E ok \in BOOLEAN :
         IF ok
         THEN tool' = [tool EXCEPT ![p] = SendReturns(@, tool[p].signature)]
         ELSE tool' = [tool EXCEPT ![p] = SendFails(@, "rpc_error")]
    /\ UNCHANGED <<processVars, cipherVars, repoVars, dbVars, vaultVars, route, now, ledgerVars>>

----------------------------------------------------------------------------
(* ToolService.executeTool, case 'sendSolToUser' (direct implementation)   *)

\* `!senderPlatform || !senderPlatformId || !recipientPlatform ||
\*  !recipientPlatformId || typeof amount !== 'number'`
ParamsInvalid(params) ==
    \/ params.sender[1] = "" \/ params.sender[2] = ""
    \/ params.recipient[1] = "" \/ params.recipient[2] = ""
    \/ params.amountType # "number"

\* variant: a switch whose default case is never taken
DirectToolsWithoutDefault == {"sendSolToUser", "unknownOp"}

\* the switch of executeTool knows these names
DirectTools == {"sendSolToUser"}

\* executeTool up to its first await on the wallet service: the frame and
\* whether getWalletBySocialAccount(sender) is called
ExecuteToolHead(toolName, params) ==
    LET f == [IdleTool EXCEPT !.entry = "executeTool", !.toolName = toolName,
                              !.params = params] IN
    IF toolName \notin DirectTools THEN ErrorEnvelope(f, "tool_not_found")
    ELSE IF ParamsInvalid(params) THEN ErrorEnvelope(f, "invalid_parameters")
    ELSE [f EXCEPT !.pc = "t_sender"]

\* variant: the handler without its sender check
SenderNeverMissing(senderWallet) == FALSE

\* `if (!senderWallet)`
SenderMissing(senderWallet) == senderWallet = NullWallet

\* senderWallet = await getWalletBySocialAccount(sender) has settled
AfterSender(p) ==
    /\ tool[p].pc = "t_sender"
    /\ vault[p].pc = "done"
    /\ IF vault[p].status = "thrown"
       THEN /\ tool' = [tool EXCEPT ![p] = ErrorEnvelope(@, vault[p].error)]
            /\ vault' = [vault EXCEPT ![p] = IdleVault]
       ELSE IF SenderMissing(vault[p].wallet)
       THEN /\ tool' = [tool EXCEPT ![p] =
                   ErrorEnvelope(@, "no_sender_wallet")]
            /\ vault' = [vault EXCEPT ![p] = IdleVault]
       ELSE /\ tool' = [tool EXCEPT ![p] =
                   [@ EXCEPT !.pc = "t_recipient",
                             !.senderWallet = vault[p].wallet]]
            /\ vault' = [vault EXCEPT ![p] =
                   VaultCall("getWalletBySocialAccount", "gs_select", "tool",
                             tool[p].params.recipient, NoKey, NoTx)]
    /\ UNCHANGED <<processVars, cipherVars, repoVars, dbVars, keyCount, encryptionKey, serviceKeypair, route,
                   now, ledgerVars>>

\* recipientWallet = await getWalletBySocialAccount(recipient) has settled:
\* create the wallet when there is none, else go on to sendSolSecure
AfterRecipient(p) ==
    /\ tool[p].pc = "t_recipient"
    /\ vault[p].pc = "done"
    /\ IF vault[p].status = "thrown"
       THEN /\ tool' = [tool EXCEPT ![p] = ErrorEnvelope(@, vault[p].error)]
            /\ vault' = [vault EXCEPT ![p] = IdleVault]
       ELSE IF vault[p].wallet = NullWallet
       THEN /\ tool' = [tool EXCEPT ![p] = [@ EXCEPT !.pc = "t_create"]]
            /\ vault' = [vault EXCEPT ![p] =
                   VaultCall("createWallet", "cw_check", "tool",
                             tool[p].params.recipient, NoKey, NoTx)]
       ELSE /\ tool' = [tool EXCEPT ![p] =
                   SendSolSecureHead(
                       [@ EXCEPT !.recipientWallet = vault[p].wallet],
                       tool[p].senderWallet.publicKey,
                       vault[p].wallet.publicKey,
                       tool[p].params.amount)]
            /\ vault' = [vault EXCEPT ![p] = IdleVault]
    /\ UNCHANGED <<processVars, cipherVars, repoVars, dbVars, keyCount, encryptionKey, serviceKeypair, route,
                   now, ledgerVars>>

\* recipientWallet = await createWallet(recipient) has settled ;
\* walletCreated = true ; go on to sendSolSecure
AfterCreate(p) ==
    /\ tool[p].pc = "t_create"
    /\ vault[p].pc = "done"
    /\ IF vault[p].status = "thrown"
       THEN tool' = [tool EXCEPT ![p] = ErrorEnvelope(@, vault[p].error)]
       ELSE tool' = [tool EXCEPT ![p] =
                SendSolSecureHead(
                    [@ EXCEPT !.recipientWallet = vault[p].wallet,
                              !.walletCreated = TRUE],
                    tool[p].senderWallet.publicKey,
                    vault[p].wallet.publicKey,
                    tool[p].params.amount)]
    /\ vault' = [vault EXCEPT ![p] = IdleVault]
    /\ UNCHANGED <<processVars, cipherVars, repoVars, dbVars, keyCount, encryptionKey, serviceKeypair, route,
                   now, ledgerVars>>

----------------------------------------------------------------------------
(* POST /mcp/tools/:toolName: Promise.race of executeTool and a timer      *)

\* response: "envelope" when the route answers with the result of
\* executeTool, "api_error" when it hands an ApiError to next().
\* respondedAt and abandonedAt observe when the response was sent and where
\* the handler stood when the timer fired.
IdleRoute ==
    [status |-> "idle", startedAt |-> 0, timer |-> "none",
     deadline |-> 0, response |-> "none", isError |-> FALSE,
     statusCode |-> 0, respondedAt |-> 0, abandonedAt |-> ""]

\* variant: setTimeout without its delay
TimerDeadlineNoDelay(startedAt) == startedAt

\* setTimeout(..., TIMEOUT_MS): when the timer is due
TimerDeadline(startedAt) == startedAt + TIMEOUT_MS

\* variant: the timer aborts the handler
CancelHandler(f) == [f EXCEPT !.pc = "done", !.status = "cancelled"]

\* Promise.race settles with the timer's rejection; the promise of
\* executeTool is left as it is
AbandonHandler(f) == f

\* invocation slot p has not been used
Unused(p) ==
    /\ vault[p] = IdleVault
    /\ tool[p] = IdleTool
    /\ route[p] = IdleRoute

\* slots are taken in order
Free(p) == Unused(p) /\ \A q \in Procs : q < p => ~Unused(q)

\* the route handler calls toolService.executeTool(toolName, params),
\* arms the timer and awaits the race
StartDispatch(p, toolName, params) ==
    /\ Free(p)
    /\ tool' = [tool EXCEPT ![p] = ExecuteToolHead(toolName, params)]
    /\ vault' = [vault EXCEPT ![p] =
           IF tool'[p].pc = "t_sender"
           THEN VaultCall("getWalletBySocialAccount", "gs_select", "tool",
                          params.sender, NoKey, NoTx)
           ELSE IdleVault]
    /\ route' = [route EXCEPT ![p] =
           [IdleRoute EXCEPT !.status = "pending", !.startedAt = now,
                             !.timer = "armed",
                             !.deadline = TimerDeadline(now)]]
    /\ UNCHANGED <<processVars, cipherVars, repoVars, dbVars, keyCount, encryptionKey, serviceKeypair, now,
                   ledgerVars>>

\* `if (result.isError) res.status(500) ... else res.status(200)`
EnvelopeStatusCode(f) == IF f.isError THEN 500 ELSE 200

\* executeTool settled first: clearTimeout, respond 500 / 200
RouteRespond(p) ==
    /\ route[p].status = "pending"
    /\ tool[p].pc = "done"
    /\ route' = [route EXCEPT ![p] =
           [@ EXCEPT !.status = "responded", !.timer = "cleared",
                     !.response = "envelope",
                     !.isError = tool[p].isError,
                     !.statusCode = EnvelopeStatusCode(tool[p]),
                     !.respondedAt = now]]
    /\ UNCHANGED <<processVars, cipherVars, repoVars, dbVars, vaultVars, tool, now, ledgerVars>>

\* the timer fires first: reject(new ApiError(408, ...)) -> catch ->
\* next(error) -> errorHandler responds 408.  No envelope is produced.
TimerFire(p) ==
    /\ route[p].timer = "armed"
    /\ tool[p].pc # "done"
    /\ now >= route[p].deadline
    /\ route' = [route EXCEPT ![p] =
           [@ EXCEPT !.status = "responded", !.timer = "fired",
                     !.response = "api_error", !.statusCode = 408,
                     !.respondedAt = now, !.abandonedAt = tool[p].pc]]
    /\ tool' = [tool EXCEPT ![p] = AbandonHandler(@)]
    /\ UNCHANGED <<processVars, cipherVars, repoVars, dbVars, vaultVars, now, ledgerVars>>

\* armed timers
Armed == { p \in Procs : route[p].timer = "armed" }

Min2(a, b) == IF a <= b THEN a ELSE b

RECURSIVE MinDeadline(_, _)
\* the earliest deadline among the timers in ps, at most limit
MinDeadline(ps, limit) ==
    IF ps = {} THEN limit
    ELSE LET q == CHOOSE x \in ps : TRUE IN
         MinDeadline(ps \ {q}, Min2(limit, route[q].deadline))

\* Time passes.  A due timer fires, and a settled race is answered, before
\* the clock moves on (timers phase and microtasks of the event loop).
Tick ==
    /\ now < MaxTime
    /\ \A p \in Armed : now < route[p].deadline /\ tool[p].pc # "done"
    /\ now' = MinDeadline(Armed, Min2(now + TickMs, MaxTime))
    /\ UNCHANGED <<processVars, cipherVars, repoVars, dbVars, vaultVars, tool, route, ledgerVars>>

----------------------------------------------------------------------------
(* Callers of the vault and of sendSolSecure outside the dispatcher        *)
(* (user routes, MCP tools)                                                *)

StartVault(p, method, pc, identity, pk, tx) ==
    /\ Free(p)
    /\ vault' = [vault EXCEPT ![p] =
           VaultCall(method, pc, "direct", identity, pk, tx)]
    /\ UNCHANGED <<processVars, cipherVars, repoVars, dbVars, keyCount, encryptionKey, serviceKeypair, tool,
                   route, now, ledgerVars>>

StartCreateWallet(p, identity) ==
    StartVault(p, "createWallet", "cw_check", identity, NoKey, NoTx)

StartGetWallet(p, identity) ==
    StartVault(p, "getWalletBySocialAccount", "gs_select", identity, NoKey,
               NoTx)

StartLink(p, identity, pk) ==
    StartVault(p, "linkSocialAccountToWallet", "ls_select_wallet", identity,
               pk, NoTx)

StartUnlink(p, identity) ==
    StartVault(p, "unlinkSocialAccount", "us_delete", identity, NoKey, NoTx)

\* signWalletTransaction(pk, transaction) on a transaction whose fee payer
\* the caller has set
StartSign(p, pk, feePayer) ==
    StartVault(p, "signWalletTransaction", "sw_select", NoIdentity, pk,
               [NoTx EXCEPT !.from = feePayer, !.feePayer = feePayer,
                            !.blockhash = blockhash])

\* toolService.sendSolSecure(from, to, amount, walletService)
StartSendSolSecure(p, from, to, amount) ==
    /\ Free(p)
    /\ tool' = [tool EXCEPT ![p] =
           SendSolSecureHead([IdleTool EXCEPT !.entry = "sendSolSecure"],
                             from, to, amount)]
    /\ UNCHANGED <<processVars, cipherVars, repoVars, dbVars, vaultVars, route, now, ledgerVars>>

\* the exported function sendSolSecure(walletPublicKey, recipientAddress,
\* amount, walletService)
StartSendSolSecureFn(p, from, to, amount, encodes) ==
    /\ Free(p)
    /\ tool' = [tool EXCEPT ![p] =
           SendSolSecureFnHead([IdleTool EXCEPT !.entry = "sendSolSecureFn"],
                               from, to, amount, encodes)]
    /\ UNCHANGED <<processVars, cipherVars, repoVars, dbVars, vaultVars, route, now, ledgerVars>>

----------------------------------------------------------------------------
(* The tool "sendSolToUser" registered on the MCP server, called through   *)
(* the server: the SDK validates the arguments against the zod schema and  *)
(* then runs the callback, whose body repeats the direct implementation    *)

\* z.enum(["twitter", "telegram", "discord"])
PlatformEnum == {"twitter", "telegram", "discord"}

\* values of a parameter that are numbers, not strings
NumberValues == {"number:5", "number:7"}

\* z.string(): present and a string
IsString(v) == v # "" /\ v \notin NumberValues

\* the schema of the registered tool rejects the arguments
SchemaRejects(params) ==
    \/ params.sender[1] \notin PlatformEnum
    \/ ~IsString(params.sender[2])
    \/ params.recipient[1] \notin PlatformEnum
    \/ ~IsString(params.recipient[2])
    \/ params.amountType # "number"
    \/ params.amount <= 0

\* the registered tool up to its first await on the wallet service
McpToolHead(params) ==
    LET f == [IdleTool EXCEPT !.entry = "mcpTool",
                              !.toolName = "sendSolToUser",
                              !.params = params] IN
    IF SchemaRejects(params) THEN ErrorEnvelope(f, "invalid_parameters")
    ELSE [f EXCEPT !.pc = "t_sender"]

\* a tools/call request for sendSolToUser arrives at the MCP server
McpCallTool(p, params) ==
    /\ Free(p)
    /\ tool' = [tool EXCEPT ![p] = McpToolHead(params)]
    /\ vault' = [vault EXCEPT ![p] =
           IF tool'[p].pc = "t_sender"
           THEN VaultCall("getWalletBySocialAccount", "gs_select", "tool",
                          params.sender, NoKey, NoTx)
           ELSE IdleVault]
    /\ UNCHANGED <<processVars, cipherVars, repoVars, dbVars, keyCount, encryptionKey,
                   serviceKeypair, route, now, ledgerVars>>

----------------------------------------------------------------------------
(* The Database class: its own SQLite file with tables wallets,            *)
(* social_accounts and transactions                                        *)

\* wallet ids and transaction signatures the callers pass
WalletIds == 1..2
Signatures == {"sigA", "sigB"}

\* 'pending' | 'confirmed' | 'failed'
Statuses == {"pending", "confirmed", "failed"}

IdleRepo ==
    [method |-> "none", pc |-> "idle", identity |-> NoIdentity,
     walletId |-> 0, existingAccount |-> FALSE, status |-> "none"]

\* rows of Database's social_accounts for an identity
SelectDbSocial(identity) ==
    { i \in 1..Len(db_social_accounts) :
        RowIdentity(db_social_accounts[i]) = identity }

\* UPDATE social_accounts SET wallet_id = ? WHERE platform = ? AND
\* platform_id = ?
UpdateWalletId(rows, identity, walletId) ==
    [i \in 1..Len(rows) |->
        IF RowIdentity(rows[i]) = identity
        THEN [rows[i] EXCEPT !.wallet_id = walletId]
        ELSE rows[i]]

\* slots of Database calls are taken in order
FreeRepo(p) ==
    /\ repo[p] = IdleRepo
    /\ \A q \in Procs : q < p => repo[q] # IdleRepo

\* Database.linkSocialAccount(platform, platformId, walletId) is called
StartDbLink(p, identity, walletId) ==
    /\ FreeRepo(p)
    /\ repo' = [repo EXCEPT ![p] =
           [IdleRepo EXCEPT !.method = "linkSocialAccount",
                            !.pc = "dl_select", !.identity = identity,
                            !.walletId = walletId]]
    /\ UNCHANGED <<processVars, cipherVars, dbVars, vaultVars, tool, route, now, ledgerVars,
                   db_wallets,
                   db_social_accounts, transactions>>

\* existingAccount = await db.get(SELECT id FROM social_accounts WHERE ...)
DbLinkSelect(p) ==
    /\ repo[p].pc = "dl_select"
    /\ repo' = [repo EXCEPT ![p] =
           [@ EXCEPT !.pc = "dl_write",
                     !.existingAccount =
                         (SelectDbSocial(repo[p].identity) # {})]]
    /\ UNCHANGED <<processVars, cipherVars, dbVars, vaultVars, tool, route, now, ledgerVars,
                   db_wallets,
                   db_social_accounts, transactions>>

\* `if (existingAccount)` UPDATE the link, else INSERT a new one (rejected
\* by UNIQUE (platform, platform_id) when a row has appeared meanwhile)
DbLinkWrite(p) ==
    /\ repo[p].pc = "dl_write"
    /\ IF repo[p].existingAccount
       THEN /\ db_social_accounts' =
                   UpdateWalletId(db_social_accounts, repo[p].identity,
                                  repo[p].walletId)
            /\ repo' = [repo EXCEPT ![p] =
                   [@ EXCEPT !.pc = "done", !.status = "returned"]]
       ELSE IF SelectDbSocial(repo[p].identity) = {}
       THEN /\ db_social_accounts' =
                   Append(db_social_accounts,
                          SocialRow(repo[p].identity, repo[p].walletId))
            /\ repo' = [repo EXCEPT ![p] =
                   [@ EXCEPT !.pc = "done", !.status = "returned"]]
       ELSE /\ db_social_accounts' = db_social_accounts
            /\ repo' = [repo EXCEPT ![p] =
                   [@ EXCEPT !.pc = "done", !.status = "thrown"]]
    /\ UNCHANGED <<processVars, cipherVars, dbVars, vaultVars, tool, route, now, ledgerVars,
                   db_wallets,
                   transactions>>

\* process.env.DB_ENCRYPTION_KEY || randomBytes(32).toString('hex')
DB_ENCRYPTION_KEY == KeyString("random", 2 * KEY_BYTES)

\* variant: the slice is read as text, one character one byte
DbKeyBytesAsText(k) == KeySlice(k)

\* Buffer.from(DB_ENCRYPTION_KEY.slice(0, 32), 'hex'): two characters of
\* the slice make one byte
DbKeyBytes(k) == [KeySlice(k) EXCEPT !.len = @ \div 2]

\* createCipheriv('aes-256-cbc', key, iv) throws unless key has 32 bytes
DbKeyLengthOk(k) == DbKeyBytes(k).len = KEY_BYTES

\* Database.encryptPrivateKey
DbEncryptPrivateKey(privateKey, iv) ==
    [iv |-> iv, key |-> DbKeyBytes(DB_ENCRYPTION_KEY), pt |-> privateKey]

\* a row of Database's wallets; encrypted_private_key NoEnvelope is NULL
DbWalletRow(id, pk, custodial, label, enc) ==
    [id |-> id, public_key |-> pk, is_custodial |-> custodial,
     label |-> label, encrypted_private_key |-> enc]

\* SELECT * FROM wallets WHERE public_key = ? on Database's table
SelectDbWalletByPk(pk) ==
    { i \in 1..Len(db_wallets) : db_wallets[i].public_key = pk }

\* the is_custodial column Database.createWallet writes:
\* `walletData.is_custodial ? 1 : 0`
CustodialColumn(isCustodial, enc) == isCustodial

\* Database.createWallet(walletData): encrypt the private key when one is
\* given, INSERT INTO wallets (public_key UNIQUE); privateKey NoKey stands
\* for a WalletRecord without encrypted_private_key
DbCreateWallet(pk, isCustodial, label, privateKey) ==
    /\ Len(db_wallets) < MaxKeys
    /\ privateKey # NoKey => DbKeyLengthOk(DB_ENCRYPTION_KEY)
    /\ SelectDbWalletByPk(pk) = {}
    /\ LET enc == IF privateKey = NoKey THEN NoEnvelope
                  ELSE DbEncryptPrivateKey(privateKey, Len(db_wallets) + 1)
       IN db_wallets' =
              Append(db_wallets,
                     DbWalletRow(Len(db_wallets) + 1, pk,
                                 CustodialColumn(isCustodial, enc), label,
                                 enc))
    /\ UNCHANGED <<processVars, cipherVars, dbVars, vaultVars, tool, route, now, ledgerVars,
                   db_social_accounts, transactions, repo>>

\* UPDATE wallets SET label = COALESCE(?, label), encrypted_private_key =
\* COALESCE(?, encrypted_private_key) WHERE id = ?
SetWallet(rows, id, label, enc) ==
    [i \in 1..Len(rows) |->
        IF rows[i].id = id
        THEN [rows[i] EXCEPT
                 !.label = IF label = "" THEN @ ELSE label,
                 !.encrypted_private_key =
                     IF enc = NoEnvelope THEN @ ELSE enc]
        ELSE rows[i]]

\* Database.updateWallet(walletData): encrypt the private key when one is
\* given (a throw leaves the table alone), then the UPDATE; label "" stands
\* for a WalletRecord without label
DbUpdateWallet(id, label, privateKey) ==
    /\ privateKey # NoKey => DbKeyLengthOk(DB_ENCRYPTION_KEY)
    /\ LET enc == IF privateKey = NoKey THEN NoEnvelope
                  ELSE DbEncryptPrivateKey(privateKey, MaxKeys + id)
       IN db_wallets' = SetWallet(db_wallets, id, label, enc)
    /\ UNCHANGED <<processVars, cipherVars, dbVars, vaultVars, tool, route, now, ledgerVars,
                   db_social_accounts, transactions, repo>>

\* rows of transactions with a signature
SelectTransaction(signature) ==
    { i \in 1..Len(transactions) : transactions[i].signature = signature }

\* POST /transaction -> Database.recordTransaction: INSERT INTO
\* transactions, rejected when the signature is already recorded
\* (signature TEXT UNIQUE)
RecordTransaction(signature, status) ==
    /\ SelectTransaction(signature) = {}
    /\ transactions' =
           Append(transactions,
                  [signature |-> signature, status |-> status,
                   confirmed_at |-> FALSE])
    /\ UNCHANGED <<processVars, cipherVars, dbVars, vaultVars, tool, route, now, ledgerVars,
                   db_wallets,
                   db_social_accounts, repo>>

\* UPDATE transactions SET status = ?, confirmed_at = ? WHERE signature = ?
\* with confirmedAt = status === 'confirmed' ? now : null
SetStatus(rows, signature, status) ==
    [i \in 1..Len(rows) |->
        IF rows[i].signature = signature
        THEN [rows[i] EXCEPT !.status = status,
                             !.confirmed_at = (status = "confirmed")]
        ELSE rows[i]]

\* PATCH /transaction/:signature/status -> TransactionService ->
\* Database.updateTransactionStatus
UpdateTransactionStatus(signature, status) ==
    /\ transactions' = SetStatus(transactions, signature, status)
    /\ UNCHANGED <<processVars, cipherVars, dbVars, vaultVars, tool, route, now, ledgerVars,
                   db_wallets,
                   db_social_accounts, repo>>

----------------------------------------------------------------------------
(* SimpleWalletManager.encryptPrivateKey / decryptPrivateKey, called on    *)
(* their own.  crypto.randomBytes(16) is taken to return a value it has    *)
(* not returned before.                                                    *)

\* encryptPrivateKey(privateKey): randomBytes(16), then createCipheriv,
\* which throws unless the key has KEY_BYTES bytes
EncryptPrivateKey(privateKey) ==
    /\ cipher.ivs < MaxEnvelopes
    /\ IF KeyLengthOk(encryptionKey)
       THEN cipher' = [cipher EXCEPT
                !.inputs = Append(@, privateKey),
                !.envelopes = Append(@, encryptPrivateKey(privateKey,
                                  encryptionKey, cipher.ivs + 1)),
                !.ivs = @ + 1,
                !.index = 0, !.status = "encrypted", !.plaintext = NoKey]
       ELSE cipher' = [cipher EXCEPT
                !.ivs = @ + 1,
                !.index = 0, !.status = "invalid_key_length",
                !.plaintext = NoKey]
    /\ UNCHANGED <<processVars, repoVars, dbVars, vaultVars, tool, route, now,
                   ledgerVars>>

\* decryptPrivateKey(envelope) of the i-th envelope produced, or of a
\* string that is no envelope (i = 0)
DecryptPrivateKey(i) ==
    /\ i \in 0..Len(cipher.envelopes)
    /\ LET envelope == IF i = 0 THEN NoEnvelope ELSE cipher.envelopes[i]
           pt == decryptPrivateKey(envelope, encryptionKey)
       IN cipher' = [cipher EXCEPT
              !.index = i,
              !.status = IF pt = NoKey THEN "bad_decrypt" ELSE "decrypted",
              !.plaintext = pt]
    /\ UNCHANGED <<processVars, repoVars, dbVars, vaultVars, tool, route, now,
                   ledgerVars>>

----------------------------------------------------------------------------
(* Initial states                                                          *)

\* WALLET_ENCRYPTION_KEY: a 32-character key
ConfiguredKeys == { KeyString("configured", KEY_BYTES) }

\* the tables after createWallet("twitter", "alice") has run once
SeedWallets(key) ==
    << WalletRow(1, PubKey(1), encryptPrivateKey(SecretKey(1), key, 1)) >>
SeedSocial == << SocialRow(<<"twitter", "alice">>, 1) >>

\* token accounts the ledger may hold for TokenMint
TokenHolders == { <<PubKey(k), TokenMint>> : k \in 1..2 }

\* a stored string that is not `iv:ciphertext`
MalformedEnvelope == [NoEnvelope EXCEPT !.pt = <<"garbage", 0>>]

\* what the encrypted_private_key column of the seeded wallet may hold when
\* the database file was not written under the configured key: an envelope
\* made under this key, one made under another key, a malformed string
StoredEnvelopes(key) ==
    { encryptPrivateKey(SecretKey(1), key, 1),
      encryptPrivateKey(SecretKey(1), KeyString("other", KEY_BYTES), 1),
      MalformedEnvelope }

\* the server after bootstrap, on an empty or on a seeded database, with
\* the ledger holding the token accounts `held` and WALLET_ENCRYPTION_KEY
\* one of `keys`; `foreign` admits a database file written elsewhere
InitStored(seeded, held, keys, foreign) ==
    /\ token_accounts = held
    /\ cipher = IdleCipher
    /\ WALLET_ENCRYPTION_KEY \in keys
    /\ processes = 1
    /\ encryptionKey = ConstructEncryptionKey(WALLET_ENCRYPTION_KEY, processes)
    /\ wallets \in
         IF ~seeded THEN { <<>> }
         ELSE IF ~foreign THEN { SeedWallets(encryptionKey) }
         ELSE { << WalletRow(1, PubKey(1), e) >> :
                    e \in StoredEnvelopes(encryptionKey) }
    /\ social_accounts = IF seeded THEN SeedSocial ELSE <<>>
    /\ keyCount = IF seeded THEN 1 ELSE 0
    /\ serviceKeypair = NoKeypair
    /\ vault = [p \in Procs |-> IdleVault]
    /\ tool = [p \in Procs |-> IdleTool]
    /\ route = [p \in Procs |-> IdleRoute]
    /\ now = 0
    /\ ledger = {}
    /\ blockhash = 1
    /\ db_wallets = <<>>
    /\ db_social_accounts = <<>>
    /\ transactions = <<>>
    /\ repo = [p \in Procs |-> IdleRepo]

InitKeys(seeded, held, keys) == InitStored(seeded, held, keys, FALSE)

InitState(seeded, held) == InitKeys(seeded, held, ConfiguredKeys)

\* the server after bootstrap, on an empty or on a seeded database
InitWith(seeded) == InitState(seeded, {})

Init == \E seeded \in BOOLEAN : InitWith(seeded)

InitEmpty == InitWith(FALSE)

\* values of WALLET_ENCRYPTION_KEY: 32 characters, longer, shorter, unset
CipherKeys ==
    { KeyString("configured", KEY_BYTES), KeyString("long", KEY_BYTES + 8),
      KeyString("short", KEY_BYTES - 16), KeyString("", 0) }

\* a seeded database whose envelope may be foreign or malformed
InitForeign == InitStored(TRUE, {}, ConfiguredKeys, TRUE)

\* an empty database under any of these keys
InitCipher == InitKeys(FALSE, {}, CipherKeys)

\* a seeded database and any set of token accounts on the ledger
InitToken == \E held \in SUBSET TokenHolders : InitState(TRUE, held)

----------------------------------------------------------------------------
(* Inputs                                                                  *)

\* sendSolToUser parameter bags: well-formed ones, and one without
\* recipientPlatformId and amount
DispatchParams ==
    { [sender |-> s, recipient |-> r, amount |-> a, amountType |-> "number"] :
        s \in Identities, r \in Identities, a \in {0, 1} }
    \cup { [sender |-> <<"twitter", "alice">>, recipient |-> <<"twitter", "">>,
            amount |-> 0, amountType |-> "undefined"] }

Addresses == { PubKey(1), PubKey(2), BadAddress }

----------------------------------------------------------------------------
(* Steps of the calls in progress                                          *)

CreateSteps(p) ==
    \/ CreateWalletCheck(p)
    \/ CreateWalletInsertWallet(p)
    \/ CreateWalletInsertSocial(p)
    \/ GetWalletById(p)

LinkSteps(p) == LinkSelectWallet(p) \/ LinkCheck(p) \/ LinkInsert(p)

SignSteps(p) == SignLoad(p) \/ SignAndReturn(p)

TransferSteps(p) ==
    \/ GetLatestBlockhash(p)
    \/ AfterSign(p)
    \/ SendRawTransaction(p)
    \/ ConfirmTransaction(p)

HandlerSteps(p) == AfterSender(p) \/ AfterRecipient(p) \/ AfterCreate(p)

----------------------------------------------------------------------------
(* Specifications                                                          *)

\* createWallet calls only
NextCreate ==
    \E p \in Procs :
        \/ \E id \in Identities : StartCreateWallet(p, id)
        \/ CreateSteps(p)

SpecCreate == InitEmpty /\ [][NextCreate]_vars

\* every method of the vault, called from outside the dispatcher
NextVault ==
    \E p \in Callers :
        \/ \E id \in Identities : StartCreateWallet(p, id)
        \/ \E id \in Identities : StartGetWallet(p, id)
        \/ \E id \in Identities, pk \in AllPubKeys : StartLink(p, id, pk)
        \/ \E id \in Identities : StartUnlink(p, id)
        \/ \E pk \in AllPubKeys, payer \in AllPubKeys : StartSign(p, pk, payer)
        \/ CreateSteps(p)
        \/ GetWalletBySocialAccount(p)
        \/ LinkSteps(p)
        \/ UnlinkSocialAccount(p)
        \/ SignSteps(p)

SpecVault == Init /\ [][NextVault]_vars

\* createWallet, getWalletBySocialAccount, linkSocialAccountToWallet and
\* unlinkSocialAccount, three calls in any order and interleaving
NextIdentity ==
    \E p \in Procs :
        \/ \E id \in Identities : StartCreateWallet(p, id)
        \/ \E id \in Identities : StartGetWallet(p, id)
        \/ \E id \in Identities, pk \in AllPubKeys : StartLink(p, id, pk)
        \/ \E id \in Identities : StartUnlink(p, id)
        \/ CreateSteps(p)
        \/ GetWalletBySocialAccount(p)
        \/ LinkSteps(p)
        \/ UnlinkSocialAccount(p)

SpecIdentity == Init /\ [][NextIdentity]_vars

\* createWallet, linkSocialAccountToWallet, unlinkSocialAccount and
\* sendSolToUser invocations side by side (the clock stands still)
NextBindings ==
    \E p \in Callers :
        \/ \E id \in Identities : StartCreateWallet(p, id)
        \/ \E id \in Identities, pk \in AllPubKeys : StartLink(p, id, pk)
        \/ \E id \in Identities : StartUnlink(p, id)
        \/ \E params \in DispatchParams :
             StartDispatch(p, "sendSolToUser", params)
        \/ CreateSteps(p)
        \/ LinkSteps(p)
        \/ UnlinkSocialAccount(p)
        \/ GetWalletBySocialAccount(p)
        \/ HandlerSteps(p)
        \/ TransferSteps(p)
        \/ SignSteps(p)
        \/ RouteRespond(p)

SpecBindings == Init /\ [][NextBindings]_vars

\* the two sendSolSecure, called with arbitrary arguments
NextSend ==
    \/ \E p \in Callers, from \in Addresses, to \in Addresses, a \in Amounts :
         \/ StartSendSolSecure(p, from, to, a)
         \/ \E encodes \in BOOLEAN :
              StartSendSolSecureFn(p, from, to, a, encodes)
    \/ \E p \in Callers : TransferSteps(p) \/ SignSteps(p)
    \/ NewBlock

SpecSend == Init /\ [][NextSend]_vars

\* the same calls on a database file that may hold a foreign envelope
SpecForeign == InitForeign /\ [][NextSend]_vars

----------------------------------------------------------------------------
(* ToolService.sendTokenSecure                                             *)

\* decimals a caller may pass
Decimals == {0, 1}

\* connection.getParsedTokenAccountsByOwner(owner, { mint }).value
TokenAccountsByOwner(owner, mint) ==
    IF <<owner, mint>> \in token_accounts THEN {<<"ata", owner, mint>>}
    ELSE {}

\* variant: a missing token account is not treated as an error
NoTokenAccountIgnored(value) == FALSE

\* `tokenAccounts.value.length === 0`, `recipientTokenAccounts.value.length
\* > 0 ... else throw`
NoTokenAccount(value) == value = {}

\* Math.floor(amount * Math.pow(10, decimals))
AdjustedAmount(amount, decimals) ==
    IF decimals = 0 THEN amount ELSE amount * 10

\* amountBuffer.writeBigUInt64LE(BigInt(adjustedAmount), 0) throws a
\* RangeError outside 0 .. 2^64 - 1
EncodesAsU64(adjustedAmount) == adjustedAmount >= 0

\* the synchronous head of sendTokenSecure: the three `new PublicKey(...)`
SendTokenSecureHead(f, from, to, mint, amount, decimals) ==
    LET g == [f EXCEPT !.from = from, !.to = to, !.mint = mint,
                       !.amount = amount, !.decimals = decimals] IN
    IF ~IsValidPublicKey(from) \/ ~IsValidPublicKey(to)
       \/ ~IsValidPublicKey(mint)
    THEN SendFails(g, "invalid_public_key")
    ELSE [g EXCEPT !.pc = "k_sender_accounts"]

\* toolService.sendTokenSecure(from, to, tokenMint, amount, decimals,
\* walletService)
StartSendTokenSecure(p, from, to, mint, amount, decimals) ==
    /\ Free(p)
    /\ tool' = [tool EXCEPT ![p] =
           SendTokenSecureHead([IdleTool EXCEPT !.entry = "sendTokenSecure"],
                               from, to, mint, amount, decimals)]
    /\ UNCHANGED <<processVars, cipherVars, repoVars, dbVars, vaultVars, route, now, ledgerVars>>

\* await getParsedTokenAccountsByOwner(fromPublicKey, { mint }) ; throw
\* when the sender has no token account for the mint
SenderTokenAccounts(p) ==
    /\ tool[p].pc = "k_sender_accounts"
    /\ \E ok \in BOOLEAN :
         LET f == [tool[p] EXCEPT
                      !.trace = Append(@, "getParsedTokenAccountsByOwner")]
         IN tool' = [tool EXCEPT ![p] =
                IF ~ok THEN SendFails(f, "rpc_error")
                ELSE IF NoTokenAccount(TokenAccountsByOwner(f.from, f.mint))
                THEN SendFails(f, "no_token_account_for_mint")
                ELSE [f EXCEPT !.pc = "k_recipient_accounts"]]
    /\ UNCHANGED <<processVars, cipherVars, repoVars, dbVars, vaultVars, route, now, ledgerVars>>

\* await getParsedTokenAccountsByOwner(toPublicKey, { mint }) ; throw when
\* the recipient has no token account ; build the transfer instruction
RecipientTokenAccounts(p) ==
    /\ tool[p].pc = "k_recipient_accounts"
    /\ \E ok \in BOOLEAN :
         LET f == [tool[p] EXCEPT
                      !.trace = Append(@, "getParsedTokenAccountsByOwner")]
             adjusted == AdjustedAmount(f.amount, f.decimals)
         IN tool' = [tool EXCEPT ![p] =
                IF ~ok THEN SendFails(f, "rpc_error")
                ELSE IF NoTokenAccount(TokenAccountsByOwner(f.to, f.mint))
                THEN SendFails(f, "recipient_has_no_token_account")
                ELSE IF ~EncodesAsU64(adjusted)
                THEN SendFails(f, "encode_out_of_range")
                ELSE [f EXCEPT !.pc = "s_blockhash",
                               !.transaction =
                                   [NoTx EXCEPT !.from = f.from, !.to = f.to,
                                                !.amount = adjusted,
                                                !.mint = f.mint]]]
    /\ UNCHANGED <<processVars, cipherVars, repoVars, dbVars, vaultVars, route, now, ledgerVars>>

\* from here sendTokenSecure runs the steps of sendSolSecure:
\* getLatestBlockhash, signWalletTransaction, sendRawTransaction,
\* confirmTransaction (GetLatestBlockhash .. ConfirmTransaction)

\* the cipher of the vault, used on its own
Secrets == { SecretKey(k) : k \in 1..2 }

NextCipher ==
    \/ \E s \in Secrets : EncryptPrivateKey(s)
    \/ \E i \in 0..MaxEnvelopes : DecryptPrivateKey(i)

SpecCipher == InitCipher /\ [][NextCipher]_vars

\* parameter bags: a transfer to an unbound identity, the same with amount
\* 0, with a platform outside the enum, with numbers for the recipient,
\* and with the recipient id and the amount missing
ToolParams ==
    { [sender |-> <<"twitter", "alice">>, recipient |-> r, amount |-> a,
       amountType |-> "number"] :
        r \in {<<"twitter", "bob">>}, a \in {0, 1} }
    \cup { [sender |-> <<"twitter", "alice">>, recipient |-> r, amount |-> 1,
            amountType |-> "number"] :
              r \in {<<"default", "bob">>, <<"number:5", "number:7">>} }
    \cup { [sender |-> <<"twitter", "alice">>, recipient |-> <<"twitter", "">>,
            amount |-> 0, amountType |-> "undefined"] }

\* sendSolToUser through the route and executeTool, and through the MCP
\* server, without the passage of time
NextTools ==
    \/ \E p \in Callers :
         \/ \E params \in ToolParams :
              \/ StartDispatch(p, "sendSolToUser", params)
              \/ McpCallTool(p, params)
         \/ HandlerSteps(p)
         \/ GetWalletBySocialAccount(p)
         \/ CreateSteps(p)
         \/ TransferSteps(p)
         \/ SignSteps(p)
         \/ RouteRespond(p)
    \/ NewBlock

SpecTools == InitWith(TRUE) /\ [][NextTools]_vars

\* sendTokenSecure, called with arbitrary arguments
NextToken ==
    \/ \E p \in Callers, from \in Addresses, to \in Addresses,
          mint \in {TokenMint, BadAddress}, a \in Amounts, d \in Decimals :
         StartSendTokenSecure(p, from, to, mint, a, d)
    \/ \E p \in Callers :
         \/ SenderTokenAccounts(p)
         \/ RecipientTokenAccounts(p)
         \/ TransferSteps(p)
         \/ SignSteps(p)
    \/ NewBlock

SpecToken == InitToken /\ [][NextToken]_vars

\* tool invocations through POST /mcp/tools/:toolName
NextDispatch ==
    \/ \E p \in Callers :
         \/ \E params \in DispatchParams :
              StartDispatch(p, "sendSolToUser", params)
         \/ StartDispatch(p, "unknownOp", NoParams)
         \/ HandlerSteps(p)
         \/ GetWalletBySocialAccount(p)
         \/ CreateSteps(p)
         \/ TransferSteps(p)
         \/ SignSteps(p)
         \/ RouteRespond(p)
         \/ TimerFire(p)
    \/ NewBlock
    \/ Tick

SpecDispatch == Init /\ [][NextDispatch]_vars

\* the Database class: linkSocialAccount calls and the transaction records
NextRepository ==
    \/ \E p \in Procs :
         \/ \E id \in Identities, w \in WalletIds : StartDbLink(p, id, w)
         \/ DbLinkSelect(p)
         \/ DbLinkWrite(p)
    \/ \E sig \in Signatures, st \in Statuses :
         \/ RecordTransaction(sig, st)
         \/ UpdateTransactionStatus(sig, st)

SpecRepository == InitEmpty /\ [][NextRepository]_vars

\* labels a caller may give; "" is no label
Labels == {"", "tips"}

\* the Database class: its wallets table and the links to it
NextDbWallets ==
    \/ \E pk \in AllPubKeys, c \in BOOLEAN, l \in Labels,
          sk \in Secrets \cup {NoKey} : DbCreateWallet(pk, c, l, sk)
    \/ \E id \in WalletIds, l \in Labels, sk \in Secrets \cup {NoKey} :
         DbUpdateWallet(id, l, sk)
    \/ \E p \in Callers :
         \/ \E id \in Identities, w \in WalletIds : StartDbLink(p, id, w)
         \/ DbLinkSelect(p)
         \/ DbLinkWrite(p)

SpecDbWallets == InitEmpty /\ [][NextDbWallets]_vars

\* SimpleWalletManager.createWallet next to Database.createWallet and
\* Database.updateWallet, each on its own file
NextWalletRows ==
    \/ \E p \in Callers :
         \/ \E id \in Identities : StartCreateWallet(p, id)
         \/ CreateSteps(p)
    \/ \E pk \in AllPubKeys, c \in BOOLEAN, l \in Labels,
          sk \in Secrets \cup {NoKey} : DbCreateWallet(pk, c, l, sk)
    \/ \E id \in WalletIds, l \in Labels, sk \in Secrets \cup {NoKey} :
         DbUpdateWallet(id, l, sk)

SpecWalletRows == InitEmpty /\ [][NextWalletRows]_vars

\* the server process ends and is started again with the same environment:
\* the calls in progress are gone, the constructor runs again, the SQLite
\* files and the ledger stay
Restart ==
    /\ processes <= MaxRestarts
    /\ processes' = processes + 1
    /\ encryptionKey' =
           ConstructEncryptionKey(WALLET_ENCRYPTION_KEY, processes + 1)
    /\ serviceKeypair' = NoKeypair
    /\ vault' = [p \in Procs |-> IdleVault]
    /\ tool' = [p \in Procs |-> IdleTool]
    /\ route' = [p \in Procs |-> IdleRoute]
    /\ repo' = [p \in Procs |-> IdleRepo]
    /\ UNCHANGED <<WALLET_ENCRYPTION_KEY, cipherVars, dbVars, keyCount, now,
                   ledgerVars, db_wallets, db_social_accounts, transactions>>

\* createWallet and signWalletTransaction across restarts
NextRestart ==
    \/ \E p \in Callers :
         \/ \E id \in Identities : StartCreateWallet(p, id)
         \/ \E pk \in AllPubKeys : StartSign(p, pk, pk)
         \/ CreateSteps(p)
         \/ SignSteps(p)
    \/ Restart

SpecRestart == InitCipher /\ [][NextRestart]_vars

----------------------------------------------------------------------------
(* Vocabulary of the claims                                                *)

\* the error kinds of the specification, by the errors the code raises
DuplicateBinding == {"already_linked", "SQLITE_CONSTRAINT"}
InvalidAmount == {"amount_must_be_positive"}

Done(p) == vault[p].pc = "done"
Succeeded(p) == Done(p) /\ vault[p].status = "returned"
Failed(p, kind) ==
    Done(p) /\ vault[p].status = "thrown" /\ vault[p].error \in kind

CreateCallsFor(id) ==
    { p \in Procs : vault[p].method = "createWallet" /\ vault[p].identity = id }

SignCalls == { p \in Procs : vault[p].method = "signWalletTransaction" }

BindingsOf(walletId) ==
    { i \in 1..Len(social_accounts) : social_accounts[i].wallet_id = walletId }

\* the ledger calls and signing requests p's transfer has made
GatewayCalls(p) ==
    { i \in 1..Len(tool[p].trace) : tool[p].trace[i] # "signWalletTransaction" }
SignRequests(p) ==
    { i \in 1..Len(tool[p].trace) : tool[p].trace[i] = "signWalletTransaction" }

TimedOut(p) == route[p].response = "api_error" /\ route[p].statusCode = 408

----------------------------------------------------------------------------
(* C1 -- SpecCreate.  When the createWallet calls made for one identity    *)
(* that had no binding have all finished, whatever their interleaving,     *)
(* exactly one of them has returned a wallet and every other one has       *)
(* failed with DuplicateBinding.                                           *)
C1_ExactlyOneCreateWins ==
    \A id \in Identities :
        LET calls == CreateCallsFor(id) IN
        (Cardinality(calls) >= 2 /\ \A p \in calls : Done(p))
        => \E w \in calls :
             /\ Succeeded(w)
             /\ \A l \in calls \ {w} : Failed(l, DuplicateBinding)

\* two interleaved calls: one returned, the other was rejected by the table
C1_Witness ==
    \E p, q \in Procs :
        /\ p # q
        /\ vault[p].method = "createWallet" /\ vault[q].method = "createWallet"
        /\ vault[p].identity = vault[q].identity
        /\ Succeeded(p)
        /\ Failed(q, {"SQLITE_CONSTRAINT"})

----------------------------------------------------------------------------
(* C2 -- SpecBindings.  In every reachable state there is at most one      *)
(* social_accounts row per (platform, platformId).                         *)
C2_OneBindingPerIdentity ==
    \A id \in Identities : Cardinality(SelectSocial(id)) <= 1

\* a racing insert was rejected, and two identities share one wallet
C2_Witness ==
    /\ \E p \in Procs : Failed(p, {"SQLITE_CONSTRAINT"})
    /\ \E i, j \in 1..Len(social_accounts) :
         /\ i # j
         /\ social_accounts[i].wallet_id = social_accounts[j].wallet_id

----------------------------------------------------------------------------
(* C3 -- SpecCreate.  createWallet is atomic: once no createWallet call is *)
(* in progress, every wallet row has the binding it was created for (a     *)
(* failed call has left no wallet behind).                                 *)
C3_CreateWalletAtomic ==
    (\A p \in Procs : vault[p].pc \in {"idle", "done"})
    => \A i \in 1..Len(wallets) : Cardinality(BindingsOf(wallets[i].id)) = 1

----------------------------------------------------------------------------
(* C4 -- SpecVault.  A finished signWalletTransaction(pk, tx) has thrown   *)
(* "wallet not found" when no wallet row has public key pk, and when it    *)
(* has returned, the transaction is signed with the secret decrypted from  *)
(* the row whose public key is pk.                                         *)
C4_SignsWithOwnRow ==
    \A p \in SignCalls :
        Done(p) =>
          LET rows == SelectWalletByPk(vault[p].walletPublicKey) IN
          /\ rows = {} => Failed(p, {"cannot_sign"})
          /\ Succeeded(p) =>
               /\ rows # {}
               /\ \A i \in rows :
                    vault[p].signed.signedWith =
                        decryptPrivateKey(wallets[i].encrypted_private_key,
                                          encryptionKey)

\* a signature was returned while the table holds several wallets
C4_Witness ==
    \E p \in SignCalls :
        /\ Succeeded(p)
        /\ Len(wallets) >= 2
        /\ vault[p].walletPublicKey = PubKey(2)

----------------------------------------------------------------------------
(* C5 -- SpecVault.  Whenever no signing call is in progress, neither the  *)
(* vault object nor any frame holds a decrypted secret or keypair.         *)
NoSigningInProgress == \A p \in SignCalls : Done(p)

----------------------------------------------------------------------------
(* C6 -- SpecSend.  A native transfer with amount <= 0 (and well-formed    *)
(* addresses) makes no ledger call, requests no signature and ends with    *)
(* InvalidAmount, through either sendSolSecure.                            *)
C6_NonPositiveAmountStopsEarly ==
    \A p \in Procs :
        ( /\ tool[p].entry \in {"sendSolSecure", "sendSolSecureFn"}
          /\ IsValidPublicKey(tool[p].from) /\ IsValidPublicKey(tool[p].to)
          /\ tool[p].amount <= 0 )
        => /\ GatewayCalls(p) = {}
           /\ SignRequests(p) = {}
           /\ tool[p].pc = "done"
              => tool[p].status = "thrown" /\ tool[p].error \in InvalidAmount

----------------------------------------------------------------------------
----------------------------------------------------------------------------
----------------------------------------------------------------------------
(* C9 -- SpecDispatch.  After an invocation was abandoned by the timeout,  *)
(* a later invocation with the same parameters does not make the ledger    *)
(* apply the transfer a second time.                                       *)
C9_NoDoubleSpend ==
    \A p, q \in Procs :
        ( /\ p # q
          /\ TimedOut(p)
          /\ route[q].status # "idle"
          /\ route[q].startedAt >= route[p].respondedAt
          /\ tool[q].params = tool[p].params )
        => ~(tool[p].signature \in ledger /\ tool[q].signature \in ledger)

----------------------------------------------------------------------------
(* C10 -- SpecDispatch.  The step in which the timer fires answers the     *)
(* caller with the timeout and changes nothing else: the handler's frame   *)
(* and its vault call stay as they are (it is not cancelled) and the       *)
(* tables and the ledger are not rolled back.                              *)
C10_TimeoutDoesNotCancel ==
    [][ \A p \in Procs :
          (route[p].timer = "armed" /\ route'[p].timer = "fired")
          => /\ TimedOut(p)'
             /\ tool'[p] = tool[p]
             /\ vault'[p] = vault[p]
             /\ wallets' = wallets
             /\ social_accounts' = social_accounts
             /\ ledger' = ledger ]_vars

\* the caller got the timeout before the handler had looked up the sender;
\* the handler has since created the recipient's wallet and the transfer
\* is on the ledger
C10_Witness ==
    \E p \in Procs :
        /\ TimedOut(p)
        /\ route[p].abandonedAt = "t_sender"
        /\ tool[p].pc = "done"
        /\ tool[p].walletCreated
        /\ tool[p].signature \in ledger
        /\ \E i \in 1..Len(wallets) :
             wallets[i].public_key = tool[p].recipientWallet.publicKey

----------------------------------------------------------------------------
(* C11 -- SpecDispatch.  executeTool with a name its switch does not know  *)
(* returns, in the step of the call itself, an envelope with isError =     *)
(* true naming the tool as not found; it throws nothing, starts no vault   *)
(* call and no transfer, leaves wallets, bindings and ledger as they are,  *)
(* and that invocation does nothing afterwards.                            *)
UnknownOperation == {"tool_not_found"}

\* the operations the dispatcher is specified to know
KnownOperations == {"sendSolToUser"}

UnknownCall(f) ==
    f.entry = "executeTool" /\ f.toolName \notin KnownOperations

----------------------------------------------------------------------------
(* C12 -- SpecDispatch.  A sendSolToUser invocation that returned success  *)
(* has sent, with a transaction the ledger applied, to the public key of   *)
(* the one wallet bound to its recipient; it says "a new wallet was        *)
(* created" exactly when it created that wallet itself.  Of the            *)
(* successful invocations for one recipient at most one created a wallet   *)
(* (a repeat creates none and reports none) and all sent to the same       *)
(* wallet.                                                                 *)
SendSucceeded(p) ==
    /\ tool[p].entry = "executeTool"
    /\ tool[p].pc = "done"
    /\ ~tool[p].isError

BoundWalletIds(identity) ==
    { social_accounts[i].wallet_id : i \in SelectSocial(identity) }

C12_CreatesRecipientWalletOnce ==
    \A p \in Procs :
        SendSucceeded(p) =>
          LET r == tool[p].params.recipient
              w == tool[p].recipientWallet
          IN /\ tool[p].signature \in ledger
             /\ tool[p].signature.to = w.publicKey
             /\ tool[p].signature.amount = Lamports(tool[p].params.amount)
             /\ BoundWalletIds(r) = {w.id}
             /\ \E i \in 1..Len(wallets) :
                  wallets[i].id = w.id /\ wallets[i].public_key = w.publicKey
             /\ tool[p].reportsCreated = tool[p].walletCreated
             /\ \A q \in Procs \ {p} :
                  (SendSucceeded(q) /\ tool[q].params.recipient = r)
                  => /\ tool[q].recipientWallet = w
                     /\ ~(tool[p].walletCreated /\ tool[q].walletCreated)

\* the first call created bob's wallet and said so; the repeat found it,
\* created nothing and sent to the same wallet; two wallets exist in all
C12_Witness ==
    \E p, q \in Procs :
        /\ p # q
        /\ SendSucceeded(p) /\ SendSucceeded(q)
        /\ tool[p].params = tool[q].params
        /\ tool[p].reportsCreated /\ ~tool[q].reportsCreated
        /\ tool[p].signature # tool[q].signature
        /\ tool[p].signature.to = tool[q].signature.to
        /\ Len(wallets) = 2

----------------------------------------------------------------------------
(* C13 -- SpecDispatch.  The result a sendSolToUser invocation returns     *)
(* reports a wallet creation exactly when the invocation created a wallet  *)
(* for the recipient, whether the invocation went on to succeed or fail.   *)
C13_CreationAlwaysReported ==
    \A p \in Procs :
        (tool[p].entry = "executeTool" /\ tool[p].pc = "done")
        => tool[p].reportsCreated = tool[p].walletCreated

----------------------------------------------------------------------------
(* C14 -- SpecDispatch.  A sendSolToUser invocation whose sender has no    *)
(* binding gets null from the sender lookup, has by then created nothing   *)
(* and called nothing but that lookup, and ends in the step after it with  *)
(* the "no wallet found for sender" error envelope: no wallet is created   *)
(* for the recipient, no signature is requested, the ledger is not         *)
(* contacted, and wallets and bindings are left unchanged.                 *)
SenderLookupPending(p) ==
    /\ tool[p].entry = "executeTool"
    /\ tool[p].pc = "t_sender"

C14_NoSenderNoEffects ==
    [][ \A p \in Procs :
          SenderLookupPending(p) =>
            /\ tool[p].trace = <<>> /\ ~tool[p].walletCreated
            /\ vault[p].method = "getWalletBySocialAccount"
            /\ vault[p].identity = tool[p].params.sender
            /\ ( /\ vault[p].pc = "gs_select"
                 /\ vault'[p] # vault[p]
                 /\ SelectSocial(tool[p].params.sender) = {} )
               => /\ vault'[p].pc = "done"
                  /\ vault'[p].status = "returned"
                  /\ vault'[p].wallet = NullWallet
                  /\ tool'[p] = tool[p]
            /\ ( /\ vault[p].pc = "done"
                 /\ vault[p].wallet = NullWallet
                 /\ tool'[p] # tool[p] )
               => /\ tool'[p].pc = "done"
                  /\ tool'[p].status = "returned"
                  /\ tool'[p].isError
                  /\ tool'[p].error = "no_sender_wallet"
                  /\ tool'[p].trace = <<>>
                  /\ ~tool'[p].walletCreated
                  /\ tool'[p].recipientWallet = NullWallet
                  /\ vault'[p] = IdleVault
                  /\ wallets' = wallets
                  /\ social_accounts' = social_accounts
                  /\ ledger' = ledger ]_vars

\* the invocation was answered with that envelope; its recipient has no
\* wallet although the database is not empty
C14_Witness ==
    \E p \in Procs :
        /\ tool[p].error = "no_sender_wallet"
        /\ route[p].response = "envelope" /\ route[p].isError
        /\ SelectSocial(tool[p].params.recipient) = {}
        /\ SelectSocial(tool[p].params.sender) = {}
        /\ Len(wallets) >= 1

----------------------------------------------------------------------------
(* C15 -- SpecIdentity.  A getWalletBySocialAccount(id) whose lookup runs     *)
(* after a createWallet(id) has returned, and before any                   *)
(* unlinkSocialAccount(id) has deleted, finds the created wallet's row     *)
(* and returns the wallet with the created wallet's public key, whatever   *)
(* other calls ran in between; a lookup of an identity without binding     *)
(* returns null.                                                           *)
CreatedFor(id) ==
    { c \in Procs : /\ vault[c].method = "createWallet"
                    /\ vault[c].identity = id
                    /\ Succeeded(c) }

UnlinkRanFor(id) ==
    \E u \in Procs : /\ vault[u].method = "unlinkSocialAccount"
                     /\ vault[u].identity = id
                     /\ vault[u].pc # "us_delete"

LookupCalls == { g \in Procs : vault[g].method = "getWalletBySocialAccount" }

C15_LookupReturnsCreatedWallet ==
    [][ \A g \in LookupCalls :
          LET id == vault[g].identity IN
          /\ (vault[g].pc = "gs_select" /\ vault'[g] # vault[g])
             => /\ SelectSocial(id) = {}
                   => Succeeded(g)' /\ vault'[g].wallet = NullWallet
                /\ (CreatedFor(id) # {} /\ ~UnlinkRanFor(id))
                   => /\ vault'[g].pc = "get_by_id"
                      /\ \A c \in CreatedFor(id) :
                           vault'[g].walletId = vault[c].wallet.id
          /\ (vault[g].pc = "get_by_id" /\ vault'[g] # vault[g])
             => /\ Succeeded(g)'
                /\ vault'[g].wallet.id = vault[g].walletId
                /\ vault'[g].wallet.publicKey =
                       wallets[vault[g].walletId].public_key
                /\ \A c \in CreatedFor(vault[g].identity) :
                     vault[c].wallet.id = vault[g].walletId
                     => vault'[g].wallet.publicKey = vault[c].wallet.publicKey
      ]_vars

\* a lookup has returned the created wallet after another identity was
\* unlinked and the lookup's own identity was not
C15_Witness ==
    \E g \in LookupCalls, c, o \in Procs :
        /\ c \in CreatedFor(vault[g].identity)
        /\ Succeeded(g)
        /\ vault[g].wallet.publicKey = vault[c].wallet.publicKey
        /\ vault[c].wallet.publicKey = PubKey(2)
        /\ vault[o].method = "unlinkSocialAccount"
        /\ vault[o].identity # vault[g].identity
        /\ Succeeded(o) /\ vault[o].changed

----------------------------------------------------------------------------
(* C16 -- SpecIdentity.  linkSocialAccountToWallet(identity, pk) throws    *)
(* "wallet not found" when no wallet row has public key pk, and a          *)
(* duplicate-binding error when the identity has a binding at its check    *)
(* or, after an interleaved create or link, at its insert; a step of the   *)
(* call that throws leaves the bindings as they are, the call never        *)
(* changes wallets, its only write appends the one binding from the        *)
(* identity to the wallet whose public key is pk, and a call that          *)
(* returns returns that wallet.                                            *)
LinkCalls ==
    { p \in Procs : vault[p].method = "linkSocialAccountToWallet" }

C16_LinkFailsCleanly ==
    [][ \A p \in LinkCalls :
          LET id == vault[p].identity
              pk == vault[p].walletPublicKey
          IN
          (vault'[p] # vault[p]) =>
            /\ wallets' = wallets
            /\ Failed(p, {"wallet_not_found"} \cup DuplicateBinding)'
               => social_accounts' = social_accounts
            /\ (vault'[p].pc = "done" /\ vault'[p].status = "thrown")
               => vault'[p].error \in {"wallet_not_found"} \cup DuplicateBinding
            /\ vault[p].pc = "ls_select_wallet"
               => /\ social_accounts' = social_accounts
                  /\ IF SelectWalletByPk(pk) = {}
                     THEN Failed(p, {"wallet_not_found"})'
                     ELSE /\ vault'[p].pc = "ls_check"
                          /\ wallets[vault'[p].walletId].public_key = pk
            /\ vault[p].pc = "ls_check"
               => /\ social_accounts' = social_accounts
                  /\ IF SelectSocial(id) # {}
                     THEN Failed(p, {"already_linked"})'
                     ELSE vault'[p].pc = "ls_insert"
            /\ vault[p].pc = "ls_insert"
               => IF SelectSocial(id) # {}
                  THEN /\ Failed(p, {"SQLITE_CONSTRAINT"})'
                       /\ social_accounts' = social_accounts
                  ELSE /\ social_accounts' =
                              Append(social_accounts,
                                     [platform |-> id[1],
                                      platform_id |-> id[2],
                                      wallet_id |-> vault[p].walletId])
                       /\ wallets[vault[p].walletId].public_key = pk
                       /\ vault'[p].pc = "get_by_id"
            /\ vault[p].pc = "get_by_id"
               => /\ social_accounts' = social_accounts
                  /\ Succeeded(p)'
                  /\ vault'[p].wallet.publicKey = pk
      ]_vars

\* two links of one identity interleaved: one returned, the other was
\* rejected at the insert, and the identity is bound once; a third link
\* named a public key no wallet has
C16_Witness ==
    \E p, q \in LinkCalls :
        /\ p # q
        /\ vault[p].identity = vault[q].identity
        /\ Succeeded(p)
        /\ Failed(q, {"SQLITE_CONSTRAINT"})
        /\ \E r \in LinkCalls : Failed(r, {"wallet_not_found"})
        /\ BoundWalletIds(vault[p].identity) = {vault[p].wallet.id}

----------------------------------------------------------------------------
(* C17 -- SpecIdentity.  unlinkSocialAccount(identity) returns true and    *)
(* deletes the identity's binding when there is one, returns false and     *)
(* changes nothing when there is none; afterwards the identity has no      *)
(* binding (so an unlink that follows returns false), no wallet row is     *)
(* deleted or changed, and the bindings of other identities are kept as    *)
(* they are.                                                               *)
UnlinkCalls == { p \in Procs : vault[p].method = "unlinkSocialAccount" }

OtherBindings(rows, identity) ==
    SelectSeq(rows, LAMBDA r : <<r.platform, r.platform_id>> # identity)

C17_UnlinkIdempotent ==
    [][ \A p \in UnlinkCalls :
          LET id == vault[p].identity IN
          (vault'[p] # vault[p]) =>
            /\ Succeeded(p)'
            /\ vault'[p].changed = (SelectSocial(id) # {})
            /\ SelectSocial(id) = {} => social_accounts' = social_accounts
            /\ social_accounts' = OtherBindings(social_accounts, id)
            /\ \A i \in 1..Len(social_accounts') :
                 <<social_accounts'[i].platform,
                   social_accounts'[i].platform_id>> # id
            /\ wallets' = wallets
      ]_vars

\* an identity was bound, a first unlink returned true, a second one
\* false, and the other identity's binding and the wallets are still there
C17_Witness ==
    \E p, q \in UnlinkCalls :
        /\ p # q
        /\ vault[p].identity = vault[q].identity
        /\ Succeeded(p) /\ vault[p].changed
        /\ Succeeded(q) /\ ~vault[q].changed
        /\ Len(social_accounts) = 1
        /\ <<social_accounts[1].platform, social_accounts[1].platform_id>>
               # vault[p].identity
        /\ Len(wallets) >= 1

----------------------------------------------------------------------------
(* C18 -- SpecRepository.  No step changes the wallet of a binding that    *)
(* exists before and after it: for as long as an identity has a binding,   *)
(* its wallet_id stays the one it was created with, in the table of the    *)
(* wallet service and in the table of the Database class.                  *)
WalletIdsOf(rows, identity) ==
    { rows[i].wallet_id :
        i \in { j \in 1..Len(rows) :
                  <<rows[j].platform, rows[j].platform_id>> = identity } }

KeepsBindings(before, after) ==
    \A id \in Identities :
        (WalletIdsOf(before, id) # {} /\ WalletIdsOf(after, id) # {})
        => WalletIdsOf(after, id) = WalletIdsOf(before, id)

C18_BindingNeverRepointed ==
    [][ /\ KeepsBindings(social_accounts, social_accounts')
        /\ KeepsBindings(db_social_accounts, db_social_accounts') ]_vars

\* the same for the table of the wallet service alone (SpecIdentity)
VaultBindingsNeverRepointed ==
    [][ KeepsBindings(social_accounts, social_accounts') ]_vars

----------------------------------------------------------------------------
(* C19 -- SpecRepository.  The status of a transaction record changes      *)
(* only from pending to confirmed or from pending to failed.               *)
C19_StatusOnlyLeavesPending ==
    [][ \A i \in 1..Len(transactions) :
          (i <= Len(transactions')
           /\ transactions'[i].status # transactions[i].status)
          => /\ transactions[i].status = "pending"
             /\ transactions'[i].status \in {"confirmed", "failed"} ]_vars


----------------------------------------------------------------------------
(* C20 -- SpecToken.  sendTokenSecure and missing token accounts           *)

TokenAccountMissing ==
    {"no_token_account_for_mint", "recipient_has_no_token_account"}

\* a sendTokenSecure call with well-formed keys whose sender or recipient
\* holds no token account for the mint
LacksTokenAccount(f) ==
    /\ f.entry = "sendTokenSecure"
    /\ IsValidPublicKey(f.from) /\ IsValidPublicKey(f.to)
    /\ IsValidPublicKey(f.mint)
    /\ \/ <<f.from, f.mint>> \notin token_accounts
       \/ <<f.to, f.mint>> \notin token_accounts

\* the call has done nothing but look token accounts up, and if it is over
\* it has thrown: the missing account, or the failure of a lookup
OnlyLookedUp(f) ==
    /\ \A i \in 1..Len(f.trace) : f.trace[i] = "getParsedTokenAccountsByOwner"
    /\ f.transaction = NoTx /\ f.signature = NoTx
    /\ f.pc = "done" =>
         /\ f.status = "thrown"
         /\ f.error \in TokenAccountMissing \cup {"rpc_error"}
         /\ f.error = "recipient_has_no_token_account"
              => <<f.to, f.mint>> \notin token_accounts
         /\ f.error = "no_token_account_for_mint"
              => <<f.from, f.mint>> \notin token_accounts

\* C20: a sendTokenSecure call whose sender or recipient has no token
\* account for the mint fails with the missing-account error (unless the
\* lookup itself fails), never asks the vault for a signature, never reaches
\* getLatestBlockhash, sendRawTransaction or confirmTransaction, and leaves
\* the ledger and its token accounts as they were; no step of any call
\* creates a token account.
C20_MissingTokenAccountFails ==
    [][ /\ token_accounts' = token_accounts
        /\ \A p \in Procs :
             LacksTokenAccount(tool'[p]) =>
               /\ OnlyLookedUp(tool'[p])
               /\ vault'[p] = IdleVault
               /\ tool'[p] # tool[p] => ledger' = ledger ]_vars

\* one call has failed because its sender has no token account and another
\* because its recipient has none, after the sender's lookup succeeded
C20_Witness ==
    \E p, q \in Procs :
       /\ LacksTokenAccount(tool[p]) /\ LacksTokenAccount(tool[q])
       /\ tool[p].pc = "done" /\ tool[p].error = "no_token_account_for_mint"
       /\ tool[p].trace = <<"getParsedTokenAccountsByOwner">>
       /\ tool[q].pc = "done"
       /\ tool[q].error = "recipient_has_no_token_account"
       /\ Len(tool[q].trace) = 2

----------------------------------------------------------------------------
(* C21 -- SpecDispatch.  No retry inside a transfer.                       *)

RECURSIVE CountCalls(_, _)
\* how often a call occurs in the trace of an invocation
CountCalls(trace, name) ==
    IF trace = <<>> THEN 0
    ELSE (IF Head(trace) = name THEN 1 ELSE 0) + CountCalls(Tail(trace), name)

RPCError == {"rpc_error"}

\* C21: an invocation asks at most once for a blockhash, for a signature,
\* for the submission and for the confirmation; the step in which the
\* submission or the confirmation fails ends the invocation with that
\* RPC error in its envelope, makes no further call and leaves the ledger
\* as it is; a finished invocation never moves again; the step in which the
\* timeout is answered starts nothing; and every step adds at most one
\* transaction to the ledger, the one the stepping invocation submitted.
C21_NoInternalRetry ==
    [][ /\ \A p \in Procs :
             /\ \A c \in {"getLatestBlockhash", "signWalletTransaction",
                          "sendRawTransaction", "confirmTransaction"} :
                    CountCalls(tool'[p].trace, c) <= 1
             /\ tool[p].pc = "done" => tool'[p] = tool[p]
             /\ ( /\ tool[p].pc \in {"s_send", "s_confirm"}
                  /\ tool'[p].pc = "done" /\ tool'[p].isError )
                => /\ tool'[p].error \in RPCError
                   /\ tool'[p].status = "returned"
                   /\ tool'[p].trace = tool[p].trace
                   /\ ledger' = ledger
             /\ (route[p].timer = "armed" /\ route'[p].timer = "fired")
                => /\ tool' = tool /\ vault' = vault /\ ledger' = ledger
                   /\ route'[p].response = "api_error"
        /\ ledger' # ledger =>
             \E p \in Procs :
                /\ tool[p].pc = "s_send" /\ tool'[p].pc = "s_confirm"
                /\ ledger' = ledger \cup {tool[p].transaction}
                /\ \A q \in Procs \ {p} : tool'[q] = tool[q] ]_vars

\* one invocation was answered with the envelope of a failed submission,
\* after its single sendRawTransaction; another was answered with the
\* timeout and its abandoned handler has since submitted its transfer, once
C21_Witness ==
    \E p, q \in Procs :
       /\ tool[p].pc = "done" /\ tool[p].isError
       /\ tool[p].error \in RPCError
       /\ tool[p].trace[Len(tool[p].trace)] = "sendRawTransaction"
       /\ route[p].response = "envelope" /\ route[p].statusCode = 500
       /\ TimedOut(q)
       /\ tool[q].signature \in ledger
       /\ CountCalls(tool[q].trace, "sendRawTransaction") = 1

----------------------------------------------------------------------------
(* C22 -- SpecCipher.  Round trip and distinct envelopes.                  *)

----------------------------------------------------------------------------
(* C23 -- SpecDbWallets.  Wallet rows: secret iff custodial, unique key.   *)

\* the rows of a wallets table have an encrypted key exactly when they are
\* custodial, and pairwise different public keys
SecretIffCustodial(rows) ==
    /\ \A i \in 1..Len(rows) :
         rows[i].is_custodial <=> rows[i].encrypted_private_key # NoEnvelope
    /\ \A i, j \in 1..Len(rows) :
         rows[i].public_key = rows[j].public_key => i = j

\* C23: in every reachable state the wallet rows of the vault's table and
\* of the Database's table have an encrypted secret exactly when they are
\* custodial, and no two rows of a table share a public key.
C23_SecretIffCustodial ==
    SecretIffCustodial(wallets) /\ SecretIffCustodial(db_wallets)

\* the part that holds: the rows of the vault's table
VaultRowsSecretIffCustodial == SecretIffCustodial(wallets)

----------------------------------------------------------------------------
(* C24 -- SpecForeign.  An envelope that does not decrypt.                 *)

CipherError == {"bad_decrypt", "bad_secret_key"}

\* the row signWalletTransaction(pk) reads holds an envelope that is
\* malformed or was made under another key
HoldsBadEnvelope(pk) ==
    /\ SignSelectRow(pk) # 0
    /\ wallets[SignSelectRow(pk)].encrypted_private_key # NoEnvelope
    /\ decryptPrivateKey(wallets[SignSelectRow(pk)].encrypted_private_key,
                         encryptionKey) = NoKey

\* C24: when the envelope stored for the sender's wallet is malformed or
\* does not decrypt under the configured key, the signWalletTransaction
\* call of a transfer throws a cipher error in its first step, holding no
\* key material; the transfer that asked for the signature then fails
\* with that same error, without sendRawTransaction or confirmTransaction
\* and with the ledger unchanged.
C24_CipherErrorPropagates ==
    [][ \A p \in Procs :
          ( /\ tool[p].pc = "s_sign"
            /\ HoldsBadEnvelope(tool[p].from) )
          => /\ ( vault[p].pc = "sw_select" /\ vault'[p] # vault[p] )
                => /\ vault'[p].pc = "done" /\ vault'[p].status = "thrown"
                   /\ vault'[p].error \in CipherError
                   /\ vault'[p].privateKey = NoKey
                   /\ vault'[p].keypair = NoKeypair
                   /\ tool'[p] = tool[p]
             /\ tool'[p] # tool[p]
                => /\ vault[p].pc = "done" /\ vault[p].status = "thrown"
                   /\ tool'[p].pc = "done" /\ tool'[p].status = "thrown"
                   /\ tool'[p].error = vault[p].error
                   /\ tool'[p].error \in CipherError
                   /\ tool'[p].signature = NoTx
                   /\ CountCalls(tool'[p].trace, "sendRawTransaction") = 0
                   /\ CountCalls(tool'[p].trace, "confirmTransaction") = 0
                   /\ ledger' = ledger ]_vars

\* a transfer from the seeded wallet has failed with a cipher error after
\* asking for the signature, on an envelope made under another key, and
\* the ledger is empty
C24_Witness ==
    \E p \in Procs :
       /\ tool[p].entry = "sendSolSecure"
       /\ tool[p].pc = "done" /\ tool[p].status = "thrown"
       /\ tool[p].error \in CipherError
       /\ tool[p].trace = <<"getLatestBlockhash", "signWalletTransaction">>
       /\ HoldsBadEnvelope(tool[p].from)
       /\ wallets[1].encrypted_private_key # MalformedEnvelope
       /\ ledger = {}

----------------------------------------------------------------------------
(* C25 -- SpecTools.  One response per invocation; parameters that are     *)
(* missing or ill-typed are refused before anything runs.                  *)

InvalidParameters == {"invalid_parameters"}

\* a required parameter is absent or has the wrong type
MissingOrIllTyped(params) ==
    \/ \E v \in {params.sender[1], params.sender[2],
                 params.recipient[1], params.recipient[2]} : ~IsString(v)
    \/ params.amountType # "number"

\* C25: an invocation through the route is answered once, with the
\* envelope of executeTool or with the timeout, and its response never
\* changes afterwards; and an invocation whose parameters are missing or
\* ill-typed has ended, in the step that started it, with the
\* invalid-parameters envelope, having called neither the wallet service
\* nor the ledger gateway.
C25_InvalidParametersBeforeExecuting ==
    [][ \A p \in Procs :
          /\ route[p].status = "responded" => route'[p] = route[p]
          /\ route'[p].status = "responded"
             => route'[p].response \in {"envelope", "api_error"}
          /\ ( /\ tool'[p].entry = "executeTool"
               /\ tool'[p].toolName \in KnownOperations
               /\ MissingOrIllTyped(tool'[p].params) )
             => /\ tool'[p].pc = "done"
                /\ tool'[p].isError
                /\ tool'[p].error \in InvalidParameters
                /\ tool'[p].trace = <<>>
                /\ ~tool'[p].walletCreated
                /\ vault'[p] = IdleVault ]_vars

----------------------------------------------------------------------------
(* C26 -- SpecSend.  Order of the steps of ToolService.sendSolSecure.      *)

InvalidAddress == {"invalid_public_key"}

TransferOrder ==
    <<"getLatestBlockhash", "signWalletTransaction", "sendRawTransaction",
      "confirmTransaction">>

\* C26: a sendSolSecure call with a non-positive amount fails with the
\* invalid-amount error whatever its addresses are, and one with a positive
\* amount and a malformed address with the invalid-address error, both
\* before any call; the calls it makes are, in this order, a prefix of
\* getLatestBlockhash, signWalletTransaction, sendRawTransaction,
\* confirmTransaction; sendRawTransaction is only called with a signed
\* transaction; and the signature is returned only after
\* confirmTransaction.
C26_StepsInOrder ==
    \A p \in Procs :
       tool[p].entry = "sendSolSecure" =>
         /\ tool[p].amount <= 0 =>
              /\ tool[p].pc = "done" /\ tool[p].status = "thrown"
              /\ tool[p].error \in InvalidAmount
              /\ tool[p].trace = <<>>
         /\ ( /\ tool[p].amount > 0
              /\ ~(IsValidPublicKey(tool[p].from)
                     /\ IsValidPublicKey(tool[p].to)) ) =>
              /\ tool[p].pc = "done" /\ tool[p].status = "thrown"
              /\ tool[p].error \in InvalidAddress
              /\ tool[p].trace = <<>>
         /\ tool[p].trace = SubSeq(TransferOrder, 1, Len(tool[p].trace))
         /\ CountCalls(tool[p].trace, "sendRawTransaction") = 1
              => tool[p].transaction.signedWith # NoKey
         /\ (tool[p].pc = "done" /\ tool[p].status = "returned")
              => /\ tool[p].trace = TransferOrder
                 /\ tool[p].signature \in ledger

\* the part that holds: the order of the calls when the amount is positive
\* or the addresses are well-formed
C26_OrderAfterValidation ==
    \A p \in Procs :
       tool[p].entry = "sendSolSecure" =>
         /\ ( /\ tool[p].amount <= 0
              /\ IsValidPublicKey(tool[p].from)
              /\ IsValidPublicKey(tool[p].to) ) =>
              /\ tool[p].pc = "done" /\ tool[p].error \in InvalidAmount
         /\ ~(IsValidPublicKey(tool[p].from) /\ IsValidPublicKey(tool[p].to))
              => tool[p].pc = "done" /\ tool[p].error \in InvalidAddress
         /\ tool[p].trace = SubSeq(TransferOrder, 1, Len(tool[p].trace))
         /\ CountCalls(tool[p].trace, "sendRawTransaction") = 1
              => tool[p].transaction.signedWith # NoKey
         /\ (tool[p].pc = "done" /\ tool[p].status = "returned")
              => /\ tool[p].trace = TransferOrder
                 /\ tool[p].signature \in ledger

----------------------------------------------------------------------------
(* C27 -- SpecDbWallets.  Every binding refers to a wallet row.            *)

\* wallet_id of every row of bindings is the id of a row of rows
RefersToWallet(bindings, rows) ==
    \A i \in 1..Len(bindings) :
       \E j \in 1..Len(rows) : rows[j].id = bindings[i].wallet_id

\* C27: every row of social_accounts, of the vault's file and of the
\* Database class's file, has the id of an existing wallets row of the same
\* file as its wallet_id.
C27_BindingRefersToWallet ==
    /\ RefersToWallet(social_accounts, wallets)
    /\ RefersToWallet(db_social_accounts, db_wallets)

\* the part that holds: the vault's own tables, under createWallet,
\* linkSocialAccountToWallet and unlinkSocialAccount
VaultBindingRefersToWallet == RefersToWallet(social_accounts, wallets)

----------------------------------------------------------------------------
(* C28 -- SpecWalletRows.  A wallet row keeps its key and its secret.      *)

\* every row of before is in after, at the same place, with the same
\* public_key and the same encrypted_private_key
KeepsKeyAndSecret(before, after) ==
    /\ Len(after) >= Len(before)
    /\ \A i \in 1..Len(before) :
         /\ after[i].id = before[i].id
         /\ after[i].public_key = before[i].public_key
         /\ after[i].encrypted_private_key = before[i].encrypted_private_key

\* the stored secret of every row that has one decrypts, under key, to the
\* secret key of the keypair whose public key is the row's public_key
SecretMatchesPublicKey(rows, key) ==
    \A i \in 1..Len(rows) :
       rows[i].encrypted_private_key # NoEnvelope =>
         /\ decryptPrivateKey(rows[i].encrypted_private_key, key) # NoKey
         /\ KeypairFromSecretKey(
              decryptPrivateKey(rows[i].encrypted_private_key, key)
            ).publicKey = rows[i].public_key

----------------------------------------------------------------------------
(* C29 -- SpecTools.  The registered sendSolToUser and the direct one.     *)

\* two frames that differ at most in the entry point they came through
SameButEntry(f, g) == [f EXCEPT !.entry = "any"] = [g EXCEPT !.entry = "any"]

\* an invocation of sendSolToUser starts in slot p in this step
StartsSendSolToUser(p) ==
    /\ Free(p)
    /\ tool'[p].entry \in {"executeTool", "mcpTool"}
    /\ tool'[p].toolName = "sendSolToUser"

\* C29: whenever sendSolToUser is invoked, through the MCP server or
\* through executeTool, the registered handler and the direct one given
\* the same parameters leave the invocation at the same place with the
\* same outcome: both refuse with the same error and no call made, or both
\* go on to the sender lookup, from where their steps are the same.
C29_ImplementationsEquivalent ==
    [][ \A p \in Procs :
          StartsSendSolToUser(p) =>
            SameButEntry(McpToolHead(tool'[p].params),
                         ExecuteToolHead("sendSolToUser", tool'[p].params))
      ]_vars

\* the part that holds: on parameters the schema accepts the two agree
C29_EquivalentOnSchemaInputs ==
    [][ \A p \in Procs :
          (StartsSendSolToUser(p) /\ ~SchemaRejects(tool'[p].params)) =>
            SameButEntry(McpToolHead(tool'[p].params),
                         ExecuteToolHead("sendSolToUser", tool'[p].params))
      ]_vars

\* a direct invocation whose parameters the schema refuses has created a
\* wallet, or has ended without error
DirectOutsideSchema ==
    \E p \in Procs :
       /\ tool[p].entry = "executeTool"
       /\ SchemaRejects(tool[p].params)
       /\ \/ tool[p].walletCreated
          \/ tool[p].pc = "done" /\ ~tool[p].isError

----------------------------------------------------------------------------
(* C30 -- SpecRestart.  A custodial wallet stays signable.                 *)

\* slot p is in signWalletTransaction for a wallet that has a row with a
\* stored secret, on a transaction that wallet pays for
SigningStoredWallet(p) ==
    /\ vault[p].method = "signWalletTransaction"
    /\ vault[p].pc \in {"sw_select", "sw_sign"}
    /\ vault[p].tx.feePayer = vault[p].walletPublicKey
    /\ \E i \in 1..Len(wallets) :
         /\ wallets[i].public_key = vault[p].walletPublicKey
         /\ wallets[i].encrypted_private_key # NoEnvelope

\* C30: no step of signWalletTransaction for a wallet createWallet has
\* stored throws, in the process that created the wallet or in a later one
\* started with the same WALLET_ENCRYPTION_KEY.
C30_StaysSignable ==
    [][ \A p \in Procs :
          (SigningStoredWallet(p)
             /\ vault'[p].method = "signWalletTransaction")
            => vault'[p].status # "thrown" ]_vars

\* the part that holds: with WALLET_ENCRYPTION_KEY set
C30_StaysSignableWhenConfigured ==
    [][ \A p \in Procs :
          (SigningStoredWallet(p) /\ WALLET_ENCRYPTION_KEY.len > 0
             /\ vault'[p].method = "signWalletTransaction")
            => vault'[p].status # "thrown" ]_vars

\* a stored wallet has been signed with after a restart
SignedAfterRestart ==
    /\ processes > 1
    /\ \E p \in Procs :
         /\ vault[p].method = "signWalletTransaction"
         /\ vault[p].pc = "done" /\ vault[p].status = "returned"

====
